---- MODULE Spec2Model ----
(***************************************************************************)
(* A model of the ai-todo repository's two AI endpoints and of the         *)
(* analysis view that calls one of them:                                   *)
(*   - the extraction endpoint (POST of the generate-todo route),          *)
(*   - the analysis endpoint (POST of the analyze-todos route),            *)
(*   - TodoAnalysis.handleAnalyze, the client of the analysis endpoint.    *)
(* Text is a sequence of one-character strings (UTF-16 code units, as      *)
(* String.prototype.length counts them).  A JSON value is a record         *)
(* [t |-> its type, v |-> its text], v being <<>> unless t = "str".        *)
(***************************************************************************)
EXTENDS Integers, Sequences, FiniteSets, TLC

VARIABLES
    exPc,       \* extraction handler: "idle", "awaitSend" (suspended in sendMessage), "done"
    exBody,     \* the request body handed to req.json()
    exNow,      \* new Date() of the handler, in minutes since the epoch (UTC)
    exTz,       \* the UTC offset of the service's time zone, in minutes
    exPrompt,   \* the local variable prompt after preprocessing
    exCalls,    \* number of chatSession.sendMessage calls made by the handler
    exInstr,    \* currentDate and currentTime as injected into the system instruction
    exAnswer,   \* what the text completion service answered
    exError,    \* the error caught by the handler's catch block
    exResp,     \* the NextResponse returned
    anPc,       \* analysis handler: "idle", "awaitSend", "done"
    anBody,     \* the request body handed to req.json()
    anNow,      \* new Date() of the handler, in minutes since the epoch (UTC)
    anTz,       \* the UTC offset of the service's time zone, in minutes
    anCalls,    \* number of chatSession.sendMessage calls made by the handler
    anInstr,    \* currentDate, currentTime and timeframe text of the system instruction
    anSent,     \* the message passed to sendMessage
    anAnswer,   \* what the text completion service answered
    anError,    \* the error caught by the handler's catch block
    anResp,     \* the NextResponse returned
    todos,      \* TodoAnalysis: the todos prop
    uiToday,    \* TodoAnalysis: the day number of new Date() in the browser
    activeTab,  \* TodoAnalysis: activeTab
    isLoading,  \* TodoAnalysis: isLoading
    result,     \* TodoAnalysis: result
    uiPc,       \* handleAnalyze: "idle", "fetchSent", "fetchServed"
    uiReq,      \* handleAnalyze: the body of its fetch
    uiFetches,  \* number of fetch calls made by the running handleAnalyze
    user,       \* MainPage: the id of the signed-in user, or "none"
    pgLoading,  \* MainPage: isLoading
    editTodo,   \* MainPage: the todo being edited, or NoRow
    ops,        \* MainPage: the handler calls that wait for the store
    rows,       \* the store: the rows of the table todos, in the order of creation
    created,    \* the store: the number of rows inserted so far
    values,     \* TodoForm: the values of the form fields
    aiPrompt,   \* TodoForm: aiPrompt
    isAiLoading, \* TodoForm: isAiLoading
    fmPc,       \* handleAiGenerate: "idle" or "fetchSent"
    fmTz,       \* the UTC offset of the browser's time zone, in minutes
    ssUser,     \* updateSession: the user of the session cookies, or "none"
    ssPath,     \* updateSession: request.nextUrl.pathname
    ssResp,     \* updateSession: the response it returned
    ssHops      \* the redirects the browser has followed for this navigation

exVars == <<exPc, exBody, exNow, exTz, exPrompt, exCalls, exInstr, exAnswer, exError, exResp>>
anVars == <<anPc, anBody, anNow, anTz, anCalls, anInstr, anSent, anAnswer, anError, anResp>>
uiVars == <<todos, uiToday, activeTab, isLoading, result, uiPc, uiReq, uiFetches>>
pgVars == <<user, pgLoading, editTodo, ops, rows, created>>
fmVars == <<values, aiPrompt, isAiLoading, fmPc, fmTz>>
ssVars == <<ssUser, ssPath, ssResp, ssHops>>
vars == <<exVars, anVars, uiVars, pgVars, fmVars, ssVars>>

(***************************************************************************)
(* Text                                                                    *)
(***************************************************************************)
Rep(c, n) == [i \in 1..n |-> c]

Min(a, b) == IF a < b THEN a ELSE b

\* The characters matched by \s and stripped by trim() that the model uses.
IsWs(c) == c \in {" ", "\t", "\n"}

Indices(s) == [i \in 1..Len(s) |-> i]

\* String.prototype.trim
Trim(s) ==
    LET nw == SelectSeq(Indices(s), LAMBDA i : ~IsWs(s[i]))
    IN  IF nw = <<>> THEN <<>> ELSE SubSeq(s, nw[1], nw[Len(nw)])

\* s.replace(/\s+/g, ' '): every maximal run of whitespace becomes one space.
CollapseWs(s) ==
    LET kept == SelectSeq(Indices(s),
                          LAMBDA i : ~IsWs(s[i]) \/ i = 1 \/ ~IsWs(s[i - 1]))
    IN  [j \in 1..Len(kept) |-> IF IsWs(s[kept[j]]) THEN " " ELSE s[kept[j]]]

\* Mutant of Normalize: the trim() is forgotten.
NormalizeUntrimmed(s) == CollapseWs(s)

\* prompt.trim().replace(/\s+/g, ' ')
Normalize(s) == CollapseWs(Trim(s))

\* String.prototype.substring(from, to) for 0 <= from <= to
Substring(s, from, to) == SubSeq(s, from + 1, Min(to, Len(s)))

Ellipsis == <<".", ".", ".">>

(***************************************************************************)
(* JSON values                                                             *)
(***************************************************************************)
Absent == [t |-> "absent", v |-> <<>>]     \* the member is missing: undefined
JNull  == [t |-> "null",   v |-> <<>>]
JZero  == [t |-> "zero",   v |-> <<>>]     \* the number 0
JNum   == [t |-> "num",    v |-> <<>>]     \* a number other than 0
JArr   == [t |-> "arr",    v |-> <<>>]     \* an array
Str(s) == [t |-> "str",    v |-> s]

\* JavaScript truthiness: undefined, null, 0 and "" are falsy.
Truthy(j) ==
    CASE j.t \in {"absent", "null", "zero"} -> FALSE
      [] j.t = "str" -> j.v # <<>>
      [] OTHER -> TRUE

IsString(j) == j.t = "str"

(***************************************************************************)
(* Dates.  An instant is a number of minutes since 1970-01-01T00:00Z.      *)
(***************************************************************************)
MinutesPerDay == 24 * 60

DigitChars == <<"0", "1", "2", "3", "4", "5", "6", "7", "8", "9">>

Pad2(n) == <<DigitChars[((n \div 10) % 10) + 1], DigitChars[(n % 10) + 1]>>

Pad4(n) == Pad2(n \div 100) \o Pad2(n % 100)

\* The proleptic Gregorian date <<year, month, day>> of a day number
\* (days since 1970-01-01), as Date's UTC getters compute it.
CivilFromDays(z) ==
    LET z1  == z + 719468
        era == z1 \div 146097
        doe == z1 - era * 146097
        yoe == (doe - doe \div 1460 + doe \div 36524 - doe \div 146096) \div 365
        doy == doe - (365 * yoe + yoe \div 4 - yoe \div 100)
        mp  == (5 * doy + 2) \div 153
        d   == doy - (153 * mp + 2) \div 5 + 1
        m   == IF mp < 10 THEN mp + 3 ELSE mp - 9
        y   == yoe + era * 400 + (IF m <= 2 THEN 1 ELSE 0)
    IN  <<y, m, d>>

DaysFromCivil(y, m, d) ==
    LET y1  == IF m <= 2 THEN y - 1 ELSE y
        era == y1 \div 400
        yoe == y1 - era * 400
        mp  == IF m > 2 THEN m - 3 ELSE m + 9
        doy == (153 * mp + 2) \div 5 + d - 1
        doe == yoe * 365 + yoe \div 4 - yoe \div 100 + doy
    IN  era * 146097 + doe - 719468

IsLeap(y) == (y % 4 = 0 /\ y % 100 # 0) \/ y % 400 = 0

DaysInMonth(y, m) ==
    IF m = 2 THEN (IF IsLeap(y) THEN 29 ELSE 28)
    ELSE IF m \in {4, 6, 9, 11} THEN 30 ELSE 31

\* The "YYYY-MM-DD" text of a day number.
IsoDate(day) ==
    LET c == CivilFromDays(day)
    IN  Pad4(c[1]) \o <<"-">> \o Pad2(c[2]) \o <<"-">> \o Pad2(c[3])

\* now.toISOString().split('T')[0]: the calendar date of now in UTC.
ToISODate(now) == IsoDate(now \div MinutesPerDay)

\* now.toTimeString().split(' ')[0].substring(0, 5): the clock time of now
\* in the time zone of the service, "HH:MM".
ToLocalTime(now, tz) ==
    LET m == (now + tz) % MinutesPerDay
    IN  Pad2(m \div 60) \o <<":">> \o Pad2(m % 60)

NaN == [nan |-> TRUE, at |-> 0]
Time(t) == [nan |-> FALSE, at |-> t]

IsDigit(c) == \E i \in 1..10 : DigitChars[i] = c

DigitVal(c) == (CHOOSE i \in 1..10 : DigitChars[i] = c) - 1

\* new Date(text) for a date-only ISO text "YYYY-MM-DD" (UTC midnight of that
\* date); any other text the model draws is not a date: Invalid Date (NaN).
DateOfText(s) ==
    IF /\ Len(s) = 10
       /\ s[5] = "-" /\ s[8] = "-"
       /\ \A i \in {1, 2, 3, 4, 6, 7, 9, 10} : IsDigit(s[i])
    THEN LET y == DigitVal(s[1]) * 1000 + DigitVal(s[2]) * 100
                  + DigitVal(s[3]) * 10 + DigitVal(s[4])
             m == DigitVal(s[6]) * 10 + DigitVal(s[7])
             d == DigitVal(s[9]) * 10 + DigitVal(s[10])
         IN  IF m \in 1..12 /\ d \in 1..DaysInMonth(y, m)
             THEN Time(DaysFromCivil(y, m, d) * MinutesPerDay)
             ELSE NaN
    ELSE NaN

\* a < b on Date objects: false as soon as one of them is Invalid Date.
DateLess(a, b) == ~a.nan /\ ~b.nan /\ a.at < b.at

(***************************************************************************)
(* The text answered by the completion service, as a sequence of tokens:   *)
(* a code fence ```, a newline, a space, a bare word, or the text of one   *)
(* well-formed JSON value (which holds no fence).                          *)
(***************************************************************************)
NoPayload == [shape |-> "none"]

Tok(k, w, val) == [k |-> k, w |-> w, val |-> val]
Fence     == Tok("fence", "", NoPayload)
Nl        == Tok("nl", "\n", NoPayload)
Sp        == Tok("sp", " ", NoPayload)
Word(w)   == Tok("word", w, NoPayload)
Json(val) == Tok("json", "", val)

IsWsTok(tok) == tok.k \in {"nl", "sp"}

\* text.replace(/```json\n|\n```/g, ""): scanning from the left, every
\* occurrence of ```json followed by a newline, and every newline followed
\* by ```, is deleted; nothing else is.
RECURSIVE StripFence(_)
StripFence(text) ==
    IF text = <<>> THEN <<>>
    ELSE IF Len(text) >= 3 /\ text[1] = Fence /\ text[2] = Word("json") /\ text[3] = Nl
         THEN StripFence(SubSeq(text, 4, Len(text)))
    ELSE IF Len(text) >= 2 /\ text[1] = Nl /\ text[2] = Fence
         THEN StripFence(SubSeq(text, 3, Len(text)))
    ELSE <<text[1]>> \o StripFence(Tail(text))

\* String.prototype.trim on a token text
TrimText(text) ==
    LET nw == SelectSeq(Indices(text), LAMBDA i : ~IsWsTok(text[i]))
    IN  IF nw = <<>> THEN <<>> ELSE SubSeq(text, nw[1], nw[Len(nw)])

\* The digit groups of a text that the handler's catch block looks for.
Markers(text) ==
    {text[i].w : i \in {j \in 1..Len(text) : text[j].k = "word"}} \cap {"429", "400"}

\* JSON.parse(text): the text parses when it is one JSON value, possibly
\* surrounded by whitespace; otherwise a SyntaxError whose message quotes the
\* text it could not parse.
JsonParse(text) ==
    LET core == TrimText(text)
    IN  IF Len(core) = 1 /\ core[1].k = "json"
        THEN [ok |-> TRUE, val |-> core[1].val, msg |-> {}]
        ELSE [ok |-> FALSE, val |-> NoPayload, msg |-> Markers(text)]

\* try { JSON.parse(responseText) } catch { JSON.parse(cleanJson) }
ParseResponse(responseText) ==
    LET first == JsonParse(responseText)
    IN  IF first.ok THEN first
        ELSE JsonParse(TrimText(StripFence(responseText)))

(***************************************************************************)
(* Errors and responses                                                    *)
(***************************************************************************)
Err(name, status, msg) == [name |-> name, status |-> status, msg |-> msg]
NoError == Err("none", 0, {})

Response(status, todo, error, details) ==
    [status |-> status, todo |-> todo, error |-> error, details |-> details]
NoResponse == Response(0, NoPayload, "", {})

(***************************************************************************)
(* The extraction endpoint                                                 *)
(***************************************************************************)
MinPromptLen == 2
MaxPromptLen == 500
FallbackTitleLen == 30
MaxTitleLen == 50
TruncTitleLen == 47

\* The member category of a todo: missing, or a list of texts.
NoCategory        == [t |-> "absent", items |-> <<>>]
Categories(items) == [t |-> "array", items |-> items]

\* A JSON object answered by the service, read as a todo.
Todo(title, description, priority, due_date, due_time) ==
    [shape |-> "object", title |-> title, description |-> description,
     priority |-> priority, category |-> NoCategory,
     due_date |-> due_date, due_time |-> due_time]
\* Answers that are JSON values but no objects.
NullPayload  == [shape |-> "null"]
ArrayPayload == [shape |-> "array"]

\* Request bodies: text that is no JSON, the JSON value null, or a JSON
\* object whose member prompt is the given value.
MalformedBody(msg) == [kind |-> "malformed", prompt |-> Absent, msg |-> msg]
NullBody           == [kind |-> "null", prompt |-> Absent, msg |-> {}]
PromptBody(prompt) == [kind |-> "object", prompt |-> prompt, msg |-> {}]
NoBody             == [kind |-> "none", prompt |-> Absent, msg |-> {}]

\* What sendMessage and response.text() produce: a text, or an error thrown.
TextAnswer(text)       == [kind |-> "text", text |-> text, error |-> NoError]
ErrorAnswer(error)     == [kind |-> "error", text |-> <<>>, error |-> error]
NoAnswer               == [kind |-> "none", text |-> <<>>, error |-> NoError]

High   == <<"h", "i", "g", "h">>
Medium == <<"m", "e", "d", "i", "u", "m">>
Low    == <<"l", "o", "w">>

\* Mutant of AdjustTitle: the fallback title is cut without the ellipsis.
AdjustTitleNoEllipsis(todo, prompt) ==
    IF ~Truthy(todo.title)
    THEN [todo EXCEPT !.title = Str(Substring(prompt, 0, FallbackTitleLen))]
    ELSE IF IsString(todo.title) /\ Len(todo.title.v) > MaxTitleLen
    THEN [todo EXCEPT
              !.description = IF ~Truthy(todo.description)
                              THEN todo.title ELSE todo.description,
              !.title = Str(Substring(todo.title.v, 0, TruncTitleLen) \o Ellipsis)]
    ELSE todo

\* Mutant of AdjustTitle: the title is cut before it is copied.
AdjustTitleCutFirst(todo, prompt) ==
    IF ~Truthy(todo.title)
    THEN [todo EXCEPT !.title =
              Str(IF Len(prompt) > FallbackTitleLen
                  THEN Substring(prompt, 0, FallbackTitleLen) \o Ellipsis
                  ELSE prompt)]
    ELSE IF IsString(todo.title) /\ Len(todo.title.v) > MaxTitleLen
    THEN LET cut == Str(Substring(todo.title.v, 0, TruncTitleLen) \o Ellipsis)
         IN  [todo EXCEPT
                  !.description = IF ~Truthy(todo.description)
                                  THEN cut ELSE todo.description,
                  !.title = cut]
    ELSE todo

\* Mutant of AdjustTitle: a long title is cut at MaxTitleLen characters.
AdjustTitleCutAtMax(todo, prompt) ==
    IF ~Truthy(todo.title)
    THEN [todo EXCEPT !.title =
              Str(IF Len(prompt) > FallbackTitleLen
                  THEN Substring(prompt, 0, FallbackTitleLen) \o Ellipsis
                  ELSE prompt)]
    ELSE IF IsString(todo.title) /\ Len(todo.title.v) > MaxTitleLen
    THEN [todo EXCEPT
              !.description = IF ~Truthy(todo.description)
                              THEN todo.title ELSE todo.description,
              !.title = Str(Substring(todo.title.v, 0, MaxTitleLen) \o Ellipsis)]
    ELSE todo

\* Title adjustment of the post-processing.
AdjustTitle(todo, prompt) ==
    IF ~Truthy(todo.title)
    THEN [todo EXCEPT !.title =
              Str(IF Len(prompt) > FallbackTitleLen
                  THEN Substring(prompt, 0, FallbackTitleLen) \o Ellipsis
                  ELSE prompt)]
    ELSE IF IsString(todo.title) /\ Len(todo.title.v) > MaxTitleLen
    THEN [todo EXCEPT
              !.description = IF ~Truthy(todo.description)
                              THEN todo.title ELSE todo.description,
              !.title = Str(Substring(todo.title.v, 0, TruncTitleLen) \o Ellipsis)]
    ELSE todo

\* if (!todo.priority) todo.priority = "medium"
DefaultPriority(todo) ==
    IF ~Truthy(todo.priority)
    THEN [todo EXCEPT !.priority = Str(Medium)]
    ELSE todo

\* A due date before today is replaced by currentDate.
CorrectPastDate(todo, currentDate) ==
    IF Truthy(todo.due_date)
    THEN LET dueDate == DateOfText(todo.due_date.v)
             today   == DateOfText(currentDate)
         IN  IF DateLess(dueDate, today)
             THEN [todo EXCEPT !.due_date = Str(currentDate)]
             ELSE todo
    ELSE todo

PostProcess(todo, prompt, currentDate) ==
    CorrectPastDate(DefaultPriority(AdjustTitle(todo, prompt)), currentDate)

\* The catch block of the extraction handler.
ExtractCatch(error) ==
    IF "429" \in error.msg
    THEN Response(429, NoPayload, "ErrRateLimit", error.msg)
    ELSE IF error.status = 400 \/ "400" \in error.msg
    THEN Response(400, NoPayload, "ErrBadRequest", error.msg)
    ELSE Response(500, NoPayload, "ErrGeneric", error.msg)

\* Mutant of ExtractFinish: the message is sent again when the service
\* fails or its answer is not JSON.
ExtractFinishResend(answer, prompt, currentDate) ==
    IF answer.kind = "error"
    THEN [calls |-> 1, error |-> answer.error, resp |-> ExtractCatch(answer.error)]
    ELSE LET parsed == ParseResponse(answer.text)
         IN  IF ~parsed.ok
             THEN LET e == Err("SyntaxError", 0, parsed.msg)
                  IN  [calls |-> 1, error |-> e, resp |-> ExtractCatch(e)]
             ELSE IF parsed.val.shape = "null"
             THEN \* todo.title of null
                  LET e == Err("TypeError", 0, {})
                  IN  [calls |-> 0, error |-> e, resp |-> ExtractCatch(e)]
             ELSE IF parsed.val.shape = "array"
             THEN \* the members set on an array are not serialised
                  [calls |-> 0, error |-> NoError,
                   resp |-> Response(200, parsed.val, "", {})]
             ELSE [calls |-> 0, error |-> NoError,
                   resp |-> Response(200, PostProcess(parsed.val, prompt, currentDate),
                                     "", {})]

\* The handler from the parsing of the answer to its return; calls is the
\* number of calls of sendMessage in this part of the handler.
ExtractFinish(answer, prompt, currentDate) ==
    IF answer.kind = "error"
    THEN [calls |-> 0, error |-> answer.error, resp |-> ExtractCatch(answer.error)]
    ELSE LET parsed == ParseResponse(answer.text)
         IN  IF ~parsed.ok
             THEN LET e == Err("SyntaxError", 0, parsed.msg)
                  IN  [calls |-> 0, error |-> e, resp |-> ExtractCatch(e)]
             ELSE IF parsed.val.shape = "null"
             THEN \* todo.title of null
                  LET e == Err("TypeError", 0, {})
                  IN  [calls |-> 0, error |-> e, resp |-> ExtractCatch(e)]
             ELSE IF parsed.val.shape = "array"
             THEN \* the members set on an array are not serialised
                  [calls |-> 0, error |-> NoError,
                   resp |-> Response(200, parsed.val, "", {})]
             ELSE [calls |-> 0, error |-> NoError,
                   resp |-> Response(200, PostProcess(parsed.val, prompt, currentDate),
                                     "", {})]

\* The validation of the request, up to the length checks.
ExtractValidate(body) ==
    IF body.kind = "malformed"
    THEN LET e == Err("SyntaxError", 0, body.msg)
         IN  [ok |-> FALSE, error |-> e, resp |-> ExtractCatch(e), prompt |-> <<>>]
    ELSE IF body.kind = "null"
    THEN LET e == Err("TypeError", 0, {})
         IN  [ok |-> FALSE, error |-> e, resp |-> ExtractCatch(e), prompt |-> <<>>]
    ELSE IF ~Truthy(body.prompt) \/ ~IsString(body.prompt)
    THEN [ok |-> FALSE, error |-> NoError,
          resp |-> Response(400, NoPayload, "ErrNotText", {}), prompt |-> <<>>]
    ELSE LET prompt == Normalize(body.prompt.v)
         IN  IF Len(prompt) < MinPromptLen
             THEN [ok |-> FALSE, error |-> NoError,
                   resp |-> Response(400, NoPayload, "ErrTooShort", {}),
                   prompt |-> prompt]
             ELSE IF Len(prompt) > MaxPromptLen
             THEN [ok |-> FALSE, error |-> NoError,
                   resp |-> Response(400, NoPayload, "ErrTooLong", {}),
                   prompt |-> prompt]
             ELSE [ok |-> TRUE, error |-> NoError, resp |-> NoResponse,
                   prompt |-> prompt]

(***************************************************************************)
(* Inputs of the extraction endpoint                                       *)
(***************************************************************************)
MaxPad == 1          \* leading whitespace of a raw prompt
BaseDay == 19723     \* 2024-01-01, the day the drawn instants lie around

\* A text of n characters without whitespace.
Chars(n) == [i \in 1..n |-> <<"a", "b", "c">>[((i - 1) % 3) + 1]]

PromptLens ==
    {0, 1, MinPromptLen, FallbackTitleLen - 1, FallbackTitleLen, FallbackTitleLen + 1,
     MaxPromptLen - 1, MaxPromptLen, MaxPromptLen + 1}

PromptTails == {<<>>, <<"\t", "\n">>, <<" ", "\t", "x">>}

RawPrompts ==
    {Rep(" ", l) \o Chars(n) \o tail :
        l \in 0..MaxPad, n \in PromptLens, tail \in PromptTails}

ExtractBodies ==
    {MalformedBody({}), MalformedBody({"429"}), NullBody}
    \cup {PromptBody(j) : j \in {Absent, JNull, JZero, JNum, JArr}}
    \cup {PromptBody(Str(s)) : s \in RawPrompts}

Nows == {BaseDay * MinutesPerDay + 30, BaseDay * MinutesPerDay + 23 * 60 + 30}

\* UTC-05:00, UTC and UTC+09:00
Offsets == {0 - 300, 0, 540}

Titles ==
    {Absent, JNull, Str(<<>>), Str(Chars(1)), Str(Chars(MaxTitleLen)),
     Str(Chars(MaxTitleLen + 1))}

Descriptions == {Absent, Str(<<>>), Str(<<"d">>)}

Priorities ==
    {Absent, Str(<<>>), Str(High), Str(Medium), Str(Low),
     Str(<<"U", "R", "G", "E", "N", "T">>), Str(<<"H", "i", "g", "h">>), JNum}

DueDates ==
    {Absent, Str(<<"s", "o", "o", "n">>)}
    \cup {Str(IsoDate(d)) : d \in (BaseDay - 2)..(BaseDay + 2)}

DueTimes == {Absent, Str(<<"1", "4", ":", "0", "0">>), Str(<<"9", "p", "m">>)}

\* Every title with every description, and every priority with every due
\* date and time.
ExtractPayloads ==
    {Todo(t, d, p, dd, Absent) :
        t \in Titles, d \in Descriptions,
        p \in {Absent, Str(High)}, dd \in {Absent, Str(IsoDate(BaseDay - 1))}}
    \cup {Todo(Str(Chars(1)), Absent, p, dd, dt) :
        p \in Priorities, dd \in DueDates, dt \in DueTimes}
    \cup {[Todo(Str(Chars(1)), Absent, Str(Low), Absent, Absent)
               EXCEPT !.category = Categories(c)] :
           c \in {<<>>, <<<<"a">>, <<"b", "c">>>>}}
    \cup {[Todo(Str(Chars(1)), Absent, Str(<<"L", "o", "w">>), Absent, Absent)
               EXCEPT !.category = Categories(<<<<"p">>>>)],
          [Todo(Str(Chars(1)), Absent, Str(<<"l", "a", "t", "e", "r">>), Absent, Absent)
               EXCEPT !.category = Categories(<<<<"q">>>>)]}

\* The ways the service words a payload.
Wordings(val) ==
    {<<Json(val)>>,
     <<Nl, Json(val), Nl>>,
     <<Fence, Word("json"), Nl, Json(val), Nl, Fence>>,
     <<Fence, Word("json"), Nl, Json(val), Nl, Fence, Nl>>,
     <<Fence, Nl, Json(val), Nl, Fence>>,
     <<Fence, Word("json"), Sp, Json(val), Fence>>,
     <<Word("Sure"), Sp, Json(val)>>}

Gibberish ==
    {<<>>, <<Word("oops")>>, <<Word("oops"), Sp, Word("429")>>,
     <<Fence, Word("json"), Nl, Word("400"), Nl, Fence>>}

\* Errors thrown by sendMessage: a failed fetch (no HTTP status) or an HTTP
\* error status, which the error message quotes.
UpstreamErrors ==
    {Err("FetchError", 0, {}), Err("FetchError", 400, {"400"}),
     Err("FetchError", 429, {"429"}), Err("FetchError", 500, {"500"}),
     Err("FetchError", 503, {"503"})}

WordedPayloads ==
    {Todo(Str(Chars(1)), Absent, Str(High), Absent, Absent),
     Todo(Absent, Absent, Absent, Str(IsoDate(BaseDay - 2)), Absent)}

ExtractAnswers ==
    {TextAnswer(<<Json(val)>>) : val \in ExtractPayloads \cup {NullPayload, ArrayPayload}}
    \cup {TextAnswer(text) : text \in UNION {Wordings(val) : val \in WordedPayloads}}
    \cup {TextAnswer(text) : text \in Gibberish}
    \cup {ErrorAnswer(e) : e \in UpstreamErrors}

NoInstr == [currentDate |-> <<>>, currentTime |-> <<>>]

InitExtract ==
    /\ exPc = "idle"
    /\ exBody = NoBody
    /\ exNow = 0
    /\ exTz = 0
    /\ exPrompt = <<>>
    /\ exCalls = 0
    /\ exInstr = NoInstr
    /\ exAnswer = NoAnswer
    /\ exError = NoError
    /\ exResp = NoResponse

\* POST with the given request body, from req.json() to the first await of
\* sendMessage (or to the response, when the request is rejected or
\* req.json() throws).
ExtractPost(body) ==
    /\ exPc = "idle"
    /\ LET v == ExtractValidate(body)
       IN  /\ exBody' = body
           /\ exPrompt' = v.prompt
           /\ IF v.ok
              THEN \E now \in Nows, tz \in Offsets :
                       /\ exNow' = now
                       /\ exTz' = tz
                       /\ exInstr' = [currentDate |-> ToISODate(now),
                                      currentTime |-> ToLocalTime(now, tz)]
                       /\ exCalls' = exCalls + 1
                       /\ exPc' = "awaitSend"
                       /\ UNCHANGED <<exAnswer, exError, exResp>>
              ELSE /\ exPc' = "done"
                   /\ exError' = v.error
                   /\ exResp' = v.resp
                   /\ UNCHANGED <<exNow, exTz, exInstr, exCalls, exAnswer>>

\* A request of a client reaches the extraction endpoint.
ExtractReceive ==
    /\ \E body \in ExtractBodies : ExtractPost(body)
    /\ UNCHANGED <<anVars, uiVars, pgVars, fmVars, ssVars>>

\* POST, from the completion of sendMessage to the response.
ExtractAnswer ==
    /\ exPc = "awaitSend"
    /\ \E answer \in ExtractAnswers :
        LET f == ExtractFinish(answer, exPrompt, exInstr.currentDate)
        IN  /\ exAnswer' = answer
            /\ exError' = f.error
            /\ exResp' = f.resp
            /\ exCalls' = exCalls + f.calls
            /\ exPc' = "done"
    /\ UNCHANGED <<exBody, exNow, exTz, exPrompt, exInstr>>
    /\ UNCHANGED <<anVars, uiVars, pgVars, fmVars, ssVars>>

(***************************************************************************)
(* The analysis endpoint                                                   *)
(***************************************************************************)
\* JSON values of an analysis: a text, a list of texts, a number, or a
\* missing member.
AText(x)     == [t |-> "str", s |-> x, items |-> <<>>]
AList(items) == [t |-> "list", s |-> "", items |-> items]
ANum         == [t |-> "num", s |-> "", items |-> <<>>]
AAbsent      == [t |-> "absent", s |-> "", items |-> <<>>]

\* A JSON object read as an analysis; extra holds the names of its other members.
Analysis(summary, urgentTasks, insights, recommendations, extra) ==
    [shape |-> "object", summary |-> summary, urgentTasks |-> urgentTasks,
     insights |-> insights, recommendations |-> recommendations, extra |-> extra]

\* The body of an error response.
ErrorBody(error, details) == [shape |-> "error", error |-> error, details |-> details]

AnResponse(status, body) == [status |-> status, body |-> body]
NoAnResponse == AnResponse(0, NoPayload)

\* A todo record.  The record has no member due_time: reading it gives
\* undefined.
Task(id, description, due_date, completed) ==
    [id |-> id, user_id |-> "u1", title |-> id, description |-> description,
     priority |-> "medium", category |-> <<"work">>, due_date |-> due_date,
     due_time |-> Absent,
     completed |-> completed, created_at |-> "2024-01-01T00:00:00Z"]

\* The member todos of a request body.
TodosAbsent      == [t |-> "absent", items |-> <<>>]
TodosNull        == [t |-> "null", items |-> <<>>]
TodosObject      == [t |-> "object", items |-> <<>>]
TodosList(items) == [t |-> "array", items |-> items]

AnalyzeBody(tds, timeframe) ==
    [kind |-> "object", todos |-> tds, timeframe |-> timeframe, msg |-> {}]
MalformedAnalyzeBody(msg) ==
    [kind |-> "malformed", todos |-> TodosAbsent, timeframe |-> "", msg |-> msg]
NullAnalyzeBody ==
    [kind |-> "null", todos |-> TodosAbsent, timeframe |-> "", msg |-> {}]
NoAnalyzeBody ==
    [kind |-> "none", todos |-> TodosAbsent, timeframe |-> "", msg |-> {}]

\* The result returned for an empty list of todos.
EmptyAnalysis ==
    Analysis(AText("NoTodosToAnalyse"), AList(<<>>),
             AList(<<"AddTodosToGetAnAnalysis">>),
             AList(<<"StartByRecordingTodaysTodos">>), {})

TimeframeText(timeframe) == IF timeframe = "today" THEN "TodayText" ELSE "WeekText"

\* Mutant of Project: the whole record is serialised.
ProjectWhole(t) == t

\* The projection of a todo that is serialised into the prompt.
Project(t) ==
    [title |-> t.title, priority |-> t.priority, due_date |-> t.due_date,
     due_time |-> t.due_time, completed |-> t.completed,
     category |-> t.category, created_at |-> t.created_at]

AnalyzePrompt(timeframe, items) ==
    [timeframeText |-> TimeframeText(timeframe),
     todosText |-> [i \in 1..Len(items) |-> Project(items[i])]]
NoPrompt == [timeframeText |-> "", todosText |-> <<>>]

NoAnInstr == [currentDate |-> <<>>, currentTime |-> <<>>, timeframeText |-> ""]

\* The catch block of the analysis handler.
AnalyzeCatch(error) == AnResponse(500, ErrorBody("ErrAnalysis", error.msg))

\* Mutant of AnalyzeValidate: an empty list is sent to the service as well.
AnalyzeValidateNoShortCut(body) ==
    IF body.kind = "malformed"
    THEN LET e == Err("SyntaxError", 0, body.msg)
         IN  [send |-> FALSE, error |-> e, resp |-> AnalyzeCatch(e)]
    ELSE IF body.kind = "null"
    THEN LET e == Err("TypeError", 0, {})
         IN  [send |-> FALSE, error |-> e, resp |-> AnalyzeCatch(e)]
    ELSE IF body.todos.t # "array"
    THEN [send |-> FALSE, error |-> NoError,
          resp |-> AnResponse(400, ErrorBody("ErrBadTodos", {}))]
    ELSE [send |-> TRUE, error |-> NoError, resp |-> NoAnResponse]

\* The validation of the request and the short cut for an empty list.
AnalyzeValidate(body) ==
    IF body.kind = "malformed"
    THEN LET e == Err("SyntaxError", 0, body.msg)
         IN  [send |-> FALSE, error |-> e, resp |-> AnalyzeCatch(e)]
    ELSE IF body.kind = "null"
    THEN LET e == Err("TypeError", 0, {})
         IN  [send |-> FALSE, error |-> e, resp |-> AnalyzeCatch(e)]
    ELSE IF body.todos.t # "array"
    THEN [send |-> FALSE, error |-> NoError,
          resp |-> AnResponse(400, ErrorBody("ErrBadTodos", {}))]
    ELSE IF Len(body.todos.items) = 0
    THEN [send |-> FALSE, error |-> NoError, resp |-> AnResponse(200, EmptyAnalysis)]
    ELSE [send |-> TRUE, error |-> NoError, resp |-> NoAnResponse]

\* Mutant of AnalyzeFinish: the text of the answer is kept in a variable of
\* the module that the extraction handler writes as well.
AnalyzeFinishShared(answer) ==
    LET heard == IF exAnswer.kind = "none" THEN answer ELSE exAnswer
    IN  IF heard.kind = "error"
        THEN [calls |-> 0, error |-> heard.error, resp |-> AnalyzeCatch(heard.error)]
        ELSE LET parsed == ParseResponse(heard.text)
             IN  IF ~parsed.ok
                 THEN LET e == Err("SyntaxError", 0, parsed.msg)
                      IN  [calls |-> 0, error |-> e, resp |-> AnalyzeCatch(e)]
                 ELSE [calls |-> 0, error |-> NoError,
                       resp |-> AnResponse(200, parsed.val)]

\* The handler from the parsing of the answer to its return.
AnalyzeFinish(answer) ==
    IF answer.kind = "error"
    THEN [calls |-> 0, error |-> answer.error, resp |-> AnalyzeCatch(answer.error)]
    ELSE LET parsed == ParseResponse(answer.text)
         IN  IF ~parsed.ok
             THEN LET e == Err("SyntaxError", 0, parsed.msg)
                  IN  [calls |-> 0, error |-> e, resp |-> AnalyzeCatch(e)]
             ELSE [calls |-> 0, error |-> NoError, resp |-> AnResponse(200, parsed.val)]

InitAnalyze ==
    /\ anPc = "idle"
    /\ anBody = NoAnalyzeBody
    /\ anNow = 0
    /\ anTz = 0
    /\ anCalls = 0
    /\ anInstr = NoAnInstr
    /\ anSent = NoPrompt
    /\ anAnswer = NoAnswer
    /\ anError = NoError
    /\ anResp = NoAnResponse

\* POST with the given request body, from req.json() to the first await of
\* sendMessage (or to the response, when the handler returns before it).
AnalyzePost(body) ==
    /\ anPc = "idle"
    /\ LET v == AnalyzeValidate(body)
       IN  /\ anBody' = body
           /\ IF v.send
              THEN \E now \in Nows, tz \in Offsets :
                       /\ anNow' = now
                       /\ anTz' = tz
                       /\ anInstr' = [currentDate |-> ToISODate(now),
                                      currentTime |-> ToLocalTime(now, tz),
                                      timeframeText |-> TimeframeText(body.timeframe)]
                       /\ anSent' = AnalyzePrompt(body.timeframe, body.todos.items)
                       /\ anCalls' = anCalls + 1
                       /\ anPc' = "awaitSend"
                       /\ UNCHANGED <<anAnswer, anError, anResp>>
              ELSE /\ anPc' = "done"
                   /\ anError' = v.error
                   /\ anResp' = v.resp
                   /\ UNCHANGED <<anNow, anTz, anInstr, anSent, anCalls, anAnswer>>

\* POST, from the completion of sendMessage to the response.
AnalyzeAnswerWith(answer) ==
    /\ anPc = "awaitSend"
    /\ LET f == AnalyzeFinish(answer)
       IN  /\ anAnswer' = answer
           /\ anError' = f.error
           /\ anResp' = f.resp
           /\ anCalls' = anCalls + f.calls
           /\ anPc' = "done"
    /\ UNCHANGED <<anBody, anNow, anTz, anInstr, anSent>>

(***************************************************************************)
(* Inputs of the analysis endpoint                                         *)
(***************************************************************************)
MaxTodos == 2        \* length of a list of todos

TaskIds == <<"t1", "t2", "t3">>

TasksOf(i) ==
    IF i = 1
    THEN {Task(TaskIds[1], "", Str(IsoDate(BaseDay)), c) : c \in BOOLEAN}
    ELSE {Task(TaskIds[((i - 1) % 3) + 1], "private note", dd, FALSE) :
              dd \in {Absent, Str(IsoDate(BaseDay + 6)), Str(IsoDate(BaseDay + 7))}}

\* The lists of at most MaxTodos todos, each of them with an id of its own.
TodoLists ==
    UNION {{l \in [1..n -> UNION {TasksOf(i) : i \in 1..MaxTodos}] :
               \A i \in 1..n : l[i] \in TasksOf(i)} : n \in 0..MaxTodos}

\* The same lists as another client sends them: of another owner, with
\* other ids and other descriptions.
OtherClientLists ==
    {[i \in 1..Len(l) |->
         [l[i] EXCEPT !.id = "x", !.user_id = "u2", !.description = "other note"]] :
     l \in TodoLists \ {<<>>}}

Timeframes == {"today", "week", "month"}

AnalyzeBodies ==
    {MalformedAnalyzeBody({}), NullAnalyzeBody}
    \cup {AnalyzeBody(tds, tf) :
            tds \in {TodosAbsent, TodosNull, TodosObject}
                    \cup {TodosList(l) : l \in TodoLists \cup OtherClientLists},
            tf \in Timeframes}

GoodAnalysis ==
    Analysis(AText("Summary"), AList(<<"t1">>), AList(<<"i1", "i2", "i3">>),
             AList(<<"r1", "r2", "r3">>), {})

AnalysisPayloads ==
    {GoodAnalysis,
     Analysis(AText("Summary"), AAbsent, AAbsent, AAbsent, {}),
     Analysis(ANum, AText("t1"), AList(<<>>), AList(<<>>), {"score"}),
     Analysis(AAbsent, AAbsent, AAbsent, AAbsent, {"error"}),
     NullPayload, ArrayPayload}

AnalyzeAnswers ==
    {TextAnswer(<<Json(val)>>) : val \in AnalysisPayloads}
    \cup {TextAnswer(text) : text \in Wordings(GoodAnalysis)}
    \cup {TextAnswer(text) : text \in Gibberish}
    \cup {ErrorAnswer(e) : e \in UpstreamErrors}

\* The handler instance is gone once its Response was delivered.
HandlerGone ==
    /\ anPc' = "idle"
    /\ anBody' = NoAnalyzeBody
    /\ anNow' = 0
    /\ anTz' = 0
    /\ anCalls' = 0
    /\ anInstr' = NoAnInstr
    /\ anSent' = NoPrompt
    /\ anAnswer' = NoAnswer
    /\ anError' = NoError
    /\ anResp' = NoAnResponse

\* A request of another client than the analysis view reaches the endpoint
\* (before the view was used).
AnalyzeReceive ==
    /\ uiPc = "idle"
    /\ result = [shape |-> "null"]
    /\ activeTab = "today"
    /\ \E body \in AnalyzeBodies : AnalyzePost(body)
    /\ UNCHANGED <<exVars, uiVars, pgVars, fmVars, ssVars>>

\* The Response to that client is delivered.
AnalyzeReturn ==
    /\ uiPc = "idle"
    /\ anPc = "done"
    /\ HandlerGone
    /\ UNCHANGED <<exVars, uiVars, pgVars, fmVars, ssVars>>

\* The completion service answers the analysis handler.
AnalyzeAnswer ==
    /\ \E answer \in AnalyzeAnswers : AnalyzeAnswerWith(answer)
    /\ UNCHANGED <<exVars, uiVars, pgVars, fmVars, ssVars>>

(***************************************************************************)
(* TodoAnalysis, the analysis view                                         *)
(***************************************************************************)
NoResult == [shape |-> "null"]

\* startOfWeek(day, { weekStartsOn: 1 }): day 0 (1970-01-01) is a Thursday.
WeekStart(day) == day - ((day + 3) % 7)

\* stats.targetTodos: the todos due today, or due this week.
TargetTodos(tds, tab, today) ==
    SelectSeq(tds, LAMBDA t :
        /\ Truthy(t.due_date)
        /\ LET date == DateOfText(t.due_date.v)
               day  == date.at \div MinutesPerDay
           IN  /\ ~date.nan
               /\ IF tab = "today" THEN day = today
                                   ELSE WeekStart(day) = WeekStart(today))

\* The ties (completed / total) * 100 = x.5 that double arithmetic computes
\* as less than x.5, as <<completed, total>>, for the totals up to 201.
TiesComputedBelow ==
    {<<23, 40>>, <<46, 80>>, <<69, 120>>, <<92, 160>>,
     <<29, 200>>, <<57, 200>>, <<113, 200>>, <<115, 200>>}

\* Math.round((completed / total) * 100): the nearest integer, a tie going up.
RoundedPercent(completed, total) ==
    IF <<completed, total>> \in TiesComputedBelow
    THEN (200 * completed + total) \div (2 * total) - 1
    ELSE (200 * completed + total) \div (2 * total)

\* stats: total, completed and rate of the todos in the timeframe.
Stats(tds, tab, today) ==
    LET targetTodos == TargetTodos(tds, tab, today)
        total       == Len(targetTodos)
        completed   == Len(SelectSeq(targetTodos, LAMBDA t : t.completed))
    IN  [total |-> total, completed |-> completed,
         rate |-> IF total = 0 THEN 0 ELSE RoundedPercent(completed, total)]

\* The result handleAnalyze sets when no todo is in the timeframe.
NothingPlanned(tab) ==
    Analysis(AText(IF tab = "today" THEN "NothingPlannedToday"
                                    ELSE "NothingPlannedThisWeek"),
             AList(<<>>), AList(<<"AddTodosAndAnalyseAgain">>),
             AList(<<"HowAboutANewGoal">>), {})

ViewUnmounted ==
    /\ todos = <<>>
    /\ uiToday = BaseDay
    /\ activeTab = "today"
    /\ isLoading = FALSE
    /\ result = NoResult
    /\ uiPc = "idle"
    /\ uiReq = NoAnalyzeBody
    /\ uiFetches = 0

InitView ==
    /\ todos \in TodoLists
    /\ uiToday = BaseDay
    /\ activeTab = "today"
    /\ isLoading = FALSE
    /\ result = NoResult
    /\ uiPc = "idle"
    /\ uiReq = NoAnalyzeBody
    /\ uiFetches = 0

\* One of the two buttons that call handleAnalyze is rendered.
AnalyzeButtonShown ==
    /\ ~isLoading
    /\ \/ result # NoResult
       \/ Len(TargetTodos(todos, activeTab, uiToday)) > 0

\* handleAnalyze, from the click to its return or to the await of fetch.
HandleAnalyze ==
    /\ uiPc = "idle"
    /\ AnalyzeButtonShown
    /\ LET target == TargetTodos(todos, activeTab, uiToday)
       IN  IF Len(target) = 0
           THEN /\ result' = NothingPlanned(activeTab)
                /\ isLoading' = FALSE
                /\ uiFetches' = 0
                /\ UNCHANGED <<uiPc, uiReq>>
           ELSE /\ isLoading' = TRUE
                /\ uiReq' = AnalyzeBody(TodosList(target), activeTab)
                /\ uiFetches' = 1
                /\ uiPc' = "fetchSent"
                /\ UNCHANGED result
    /\ UNCHANGED <<todos, uiToday, activeTab>>
    /\ UNCHANGED <<exVars, anVars, pgVars, fmVars, ssVars>>

\* The request of the view reaches the analysis endpoint.
ViewRequestArrives ==
    /\ uiPc = "fetchSent"
    /\ AnalyzePost(uiReq)
    /\ UNCHANGED <<exVars, uiVars, pgVars, fmVars, ssVars>>

\* data.error is truthy
HasError(data) ==
    \/ data.shape = "error"
    \/ data.shape = "object" /\ "error" \in data.extra

\* handleAnalyze, from the completion of fetch to its return.
HandleAnalyzeResponse ==
    /\ uiPc = "fetchSent"
    /\ anPc = "done"
    /\ LET data == anResp.body
       IN  IF data.shape = "null" \/ HasError(data)
           THEN UNCHANGED result
           ELSE result' = data
    /\ isLoading' = FALSE
    /\ uiPc' = "idle"
    /\ uiReq' = NoAnalyzeBody
    /\ HandlerGone
    /\ UNCHANGED <<todos, uiToday, activeTab, uiFetches>>
    /\ UNCHANGED <<exVars, pgVars, fmVars, ssVars>>

\* fetch rejects: the request never reached the endpoint.
HandleAnalyzeFetchFails ==
    /\ uiPc = "fetchSent"
    /\ anPc = "idle"
    /\ isLoading' = FALSE
    /\ uiPc' = "idle"
    /\ uiReq' = NoAnalyzeBody
    /\ UNCHANGED <<todos, uiToday, activeTab, result, uiFetches>>
    /\ UNCHANGED <<exVars, anVars, pgVars, fmVars, ssVars>>

\* onValueChange of the tabs
SwitchTab ==
    /\ \E val \in {"today", "week"} :
        /\ val # activeTab
        /\ activeTab' = val
    /\ result' = NoResult
    /\ UNCHANGED <<todos, uiToday, isLoading, uiPc, uiReq, uiFetches>>
    /\ UNCHANGED <<exVars, anVars, pgVars, fmVars, ssVars>>

MaxCount == 200      \* todos in the timeframe

\* A list of n todos due today, the first c of them completed.
CountedTodos(n, c) ==
    [i \in 1..n |-> Task(TaskIds[1], "", Str(IsoDate(BaseDay)), i <= c)]

\* The view with a list of todos due today, any number of them completed.
InitCounted ==
    /\ \E n \in 0..MaxCount, c \in 0..MaxCount :
        /\ c <= n
        /\ todos = CountedTodos(n, c)
    /\ uiToday = BaseDay
    /\ activeTab = "today"
    /\ isLoading = FALSE
    /\ result = NoResult
    /\ uiPc = "idle"
    /\ uiReq = NoAnalyzeBody
    /\ uiFetches = 0

\* The page renders the view again after one more todo was completed.
TodoCompleted ==
    /\ \E i \in 1..Len(todos) :
        /\ ~todos[i].completed
        /\ IF i = 1 THEN TRUE ELSE todos[i - 1].completed
        /\ todos' = [todos EXCEPT ![i].completed = TRUE]
    /\ UNCHANGED <<uiToday, activeTab, isLoading, result, uiPc, uiReq, uiFetches>>
    /\ UNCHANGED <<exVars, anVars, pgVars, fmVars, ssVars>>

\* The page renders the view with another list of todos.
TodosChange ==
    /\ \E l \in TodoLists :
        /\ l # todos
        /\ todos' = l
    /\ UNCHANGED <<uiToday, activeTab, isLoading, result, uiPc, uiReq, uiFetches>>
    /\ UNCHANGED <<exVars, anVars, pgVars, fmVars, ssVars>>

(***************************************************************************)
(* TodoForm and MainPage: values                                           *)
(***************************************************************************)
\* A Date: missing, an instant in minutes since the epoch (UTC), or
\* Invalid Date.
NoDate      == [t |-> "absent", at |-> 0]
DateAt(at)  == [t |-> "date", at |-> at]
InvalidDate == [t |-> "invalid", at |-> 0]

\* The values of the form fields.
FormValues(title, description, priority, category, due_date, due_time) ==
    [title |-> title, description |-> description, priority |-> priority,
     category |-> category, due_date |-> due_date, due_time |-> due_time]

\* A row of the table todos.
Row(id, user_id, title, description, priority, category, due_date, completed, created_at) ==
    [id |-> id, user_id |-> user_id, title |-> title, description |-> description,
     priority |-> priority, category |-> category, due_date |-> due_date,
     completed |-> completed, created_at |-> created_at]
\* The id of a row is its number in the order of creation; 0 is no row.
NoRow == Row(0, "", Absent, Absent, <<>>, <<>>, NoDate, FALSE, 0)

\* text.split(","): the texts between the commas, at least one.
SplitComma(s) ==
    LET commas == SelectSeq(Indices(s), LAMBDA i : s[i] = ",")
        n      == Len(commas)
    IN  [k \in 1..(n + 1) |->
            SubSeq(s, IF k = 1 THEN 1 ELSE commas[k - 1] + 1,
                      IF k = n + 1 THEN Len(s) ELSE commas[k] - 1)]

\* items.join(", ")
RECURSIVE JoinComma(_)
JoinComma(items) ==
    IF Len(items) = 0 THEN <<>>
    ELSE IF Len(items) = 1 THEN items[1]
    ELSE items[1] \o <<",", " ">> \o JoinComma(Tail(items))

\* text.split(",").map((c) => c.trim())
SplitCategory(s) ==
    LET parts == SplitComma(s)
    IN  [k \in 1..Len(parts) |-> Trim(parts[k])]

\* The value of a run of digits.
RECURSIVE DigitsValue(_)
DigitsValue(s) ==
    IF Len(s) = 0 THEN 0
    ELSE DigitsValue(SubSeq(s, 1, Len(s) - 1)) * 10 + DigitVal(s[Len(s)])

\* Number(text) for the texts between the colons of a due time: the value of
\* a run of digits, 0 for the empty text, NaN (-1) for any other text.
ToNumber(s) ==
    IF \A i \in 1..Len(s) : IsDigit(s[i]) THEN DigitsValue(s) ELSE 0 - 1

\* text.split(":")
SplitColon(s) ==
    LET colons == SelectSeq(Indices(s), LAMBDA i : s[i] = ":")
        n      == Len(colons)
    IN  [k \in 1..(n + 1) |->
            SubSeq(s, IF k = 1 THEN 1 ELSE colons[k - 1] + 1,
                      IF k = n + 1 THEN Len(s) ELSE colons[k] - 1)]

\* date.setHours(hours, minutes) in the time zone of the browser: the local
\* calendar day of the date with the given clock time.
SetHours(at, hours, minutes, tz) ==
    ((at + tz) \div MinutesPerDay) * MinutesPerDay + hours * 60 + minutes - tz

\* format(date, "HH:mm"): the clock time of the date in the browser's zone.
FormatTime(at, tz) ==
    LET m == (at + tz) % MinutesPerDay
    IN  Pad2(m \div 60) \o <<":">> \o Pad2(m % 60)

\* String.prototype.toLowerCase for the letters the priorities are made of.
LowerChar(c) ==
    IF c = "H" THEN "h" ELSE IF c = "I" THEN "i" ELSE IF c = "G" THEN "g"
    ELSE IF c = "M" THEN "m" ELSE IF c = "E" THEN "e" ELSE IF c = "D" THEN "d"
    ELSE IF c = "U" THEN "u" ELSE IF c = "L" THEN "l" ELSE IF c = "O" THEN "o"
    ELSE IF c = "W" THEN "w" ELSE IF c = "R" THEN "r" ELSE IF c = "N" THEN "n"
    ELSE IF c = "T" THEN "t" ELSE c
ToLowerCase(s) == [i \in 1..Len(s) |-> LowerChar(s[i])]

(***************************************************************************)
(* TodoForm                                                                *)
(***************************************************************************)
\* defaultValues of useForm
DefaultValues(initialData, tz) ==
    IF initialData = NoRow
    THEN FormValues(Str(<<>>), Str(<<>>), Medium, Str(<<>>), NoDate, Absent)
    ELSE FormValues(
             IF Truthy(initialData.title) THEN initialData.title ELSE Str(<<>>),
             IF Truthy(initialData.description) THEN initialData.description
                                                ELSE Str(<<>>),
             IF initialData.priority # <<>> THEN initialData.priority ELSE Medium,
             Str(JoinComma(initialData.category)),
             IF initialData.due_date.t = "date" THEN initialData.due_date ELSE NoDate,
             IF initialData.due_date.t = "date"
             THEN Str(FormatTime(initialData.due_date.at, tz)) ELSE Absent)

\* todoFormSchema: the values the resolver lets pass to handleSubmit.
ValidForm(v) ==
    /\ IsString(v.title) /\ Len(v.title.v) >= 1
    /\ v.description = Absent \/ IsString(v.description)
    /\ v.priority \in {High, Medium, Low}
    /\ v.category = Absent \/ IsString(v.category)
    /\ v.due_date.t \in {"absent", "date"}
    /\ v.due_time = Absent \/ IsString(v.due_time)

\* handleSubmit: the due date merged with the due time.
MergeDate(v, tz) ==
    IF v.due_date.t = "date"
    THEN IF Truthy(v.due_time)
         THEN LET parts   == SplitColon(v.due_time.v)
                  hours   == ToNumber(parts[1])
                  minutes == IF Len(parts) >= 2 THEN ToNumber(parts[2]) ELSE 0 - 1
              IN  IF hours < 0 \/ minutes < 0
                  THEN InvalidDate
                  ELSE DateAt(SetHours(v.due_date.at, hours, minutes, tz))
         ELSE DateAt(SetHours(v.due_date.at, 0, 0, tz))
    ELSE v.due_date

\* The todo of a response read as an object: an array has none of the members.
AsTodo(payload) ==
    IF payload.shape = "object" THEN payload
    ELSE Todo(Absent, Absent, Absent, Absent, Absent)

\* The description handleAiGenerate puts into the form.
AiDescription(todo, prompt) ==
    IF Truthy(todo.description)
    THEN prompt \o <<"\n", "\n", "(AI summary: ">> \o todo.description.v \o <<")">>
    ELSE prompt

\* Mutant of AiPriority: the lower-cased priority is used without the check
\* against high, medium and low.
AiPriorityUnchecked(todo) ==
    IF Truthy(todo.priority) THEN ToLowerCase(todo.priority.v) ELSE Medium

\* The priority handleAiGenerate puts into the form.
AiPriority(todo) ==
    IF Truthy(todo.priority)
    THEN LET lowerPriority == ToLowerCase(todo.priority.v)
         IN  IF lowerPriority \in {High, Medium, Low} THEN lowerPriority ELSE Medium
    ELSE Medium

\* Mutant of AiDueTime: a missing due time becomes midnight.
AiDueTimeMidnight(todo) ==
    IF Truthy(todo.due_time) THEN todo.due_time
                             ELSE Str(<<"0", "0", ":", "0", "0">>)

\* The due time handleAiGenerate puts into the form with a valid due date.
AiDueTime(todo) ==
    IF Truthy(todo.due_time) THEN todo.due_time
                             ELSE Str(<<"0", "9", ":", "0", "0">>)

\* handleAiGenerate after a response without an error: the values of the
\* form and whether toLowerCase threw (the priority is no text).  The due
\* dates of the responses are texts or missing.
Prefill(v, payload, prompt) ==
    LET todo == AsTodo(payload)
        v1   == [v EXCEPT !.title = todo.title,
                          !.description = Str(AiDescription(todo, prompt))]
    IN  IF Truthy(todo.priority) /\ ~IsString(todo.priority)
        THEN [values |-> v1, threw |-> TRUE]
        ELSE LET v2 == [v1 EXCEPT !.priority = AiPriority(todo)]
                 v3 == IF todo.category.t = "array"
                       THEN [v2 EXCEPT !.category = Str(JoinComma(todo.category.items))]
                       ELSE v2
                 date == IF Truthy(todo.due_date) /\ IsString(todo.due_date)
                         THEN DateOfText(todo.due_date.v) ELSE NaN
                 v4 == IF Truthy(todo.due_date) /\ ~date.nan
                       THEN [v3 EXCEPT !.due_date = DateAt(date.at),
                                       !.due_time = AiDueTime(todo)]
                       ELSE v3
             IN  [values |-> v4, threw |-> FALSE]

(***************************************************************************)
(* MainPage: the calls of the store                                        *)
(***************************************************************************)
\* A handler call that waits for the store: handleAddTodo ("add"),
\* handleEditTodo ("edit"), handleToggleTodo ("toggle") or handleDeleteTodo
\* ("delete"), waiting for its insert, update or delete ("write") or for the
\* select of fetchTodos ("select").
\* record is the object given to insert or update, snapshot the todos of the
\* render the handler belongs to, create whether the form that submitted
\* had no initialData.
Op(kind, stage, id, checked, record, snapshot, create) ==
    [kind |-> kind, stage |-> stage, id |-> id, checked |-> checked,
     record |-> record, snapshot |-> snapshot, create |-> create]

\* The object handleAddTodo inserts.
AddRecord(v, userId) ==
    Row(0, userId, v.title, v.description, v.priority,
        IF Truthy(v.category) THEN Categories(SplitCategory(v.category.v))
                              ELSE Categories(<<>>),
        v.due_date, FALSE, 0)

\* The object handleEditTodo gives to update.
EditRecord(v) ==
    Row(0, "", v.title, v.description, v.priority,
        IF IsString(v.category) THEN Categories(SplitCategory(v.category.v))
                                ELSE NoCategory,
        v.due_date, FALSE, 0)

\* A Date as the store keeps it: Invalid Date is serialised as null.
StoredDate(d) == IF d.t = "date" THEN d ELSE NoDate

\* insert(record): the store sets id, completed and created_at.
InsertRow(table, record, n) ==
    Append(table, Row(n, record.user_id, record.title, record.description,
                      record.priority, record.category.items,
                      StoredDate(record.due_date), FALSE, n))

\* Mutant of UpdateRow: the row is replaced by the record.
UpdateRowReplace(table, record, id) ==
    [i \in 1..Len(table) |->
        IF table[i].id = id
        THEN Row(id, record.user_id, record.title, record.description,
                 record.priority, record.category.items,
                 StoredDate(record.due_date), record.completed, record.created_at)
        ELSE table[i]]

\* update(record).eq('id', id)
UpdateRow(table, record, id) ==
    [i \in 1..Len(table) |->
        IF table[i].id = id
        THEN [table[i] EXCEPT !.title = record.title,
                              !.description = record.description,
                              !.priority = record.priority,
                              !.category = IF record.category.t = "array"
                                           THEN record.category.items ELSE @,
                              !.due_date = StoredDate(record.due_date)]
        ELSE table[i]]

\* update({ completed: checked }).eq('id', id)
UpdateCompleted(table, id, checked) ==
    [i \in 1..Len(table) |->
        IF table[i].id = id THEN [table[i] EXCEPT !.completed = checked]
                            ELSE table[i]]

\* select('*').order('created_at', { ascending: false })
SelectRows(table) == [i \in 1..Len(table) |-> table[Len(table) + 1 - i]]

\* todos.map((t) => (t.id === id ? { ...t, completed: checked } : t))
MapCompleted(list, id, checked) ==
    [i \in 1..Len(list) |->
        IF list[i].id = id THEN [list[i] EXCEPT !.completed = checked] ELSE list[i]]

\* todos.filter((t) => t.id !== id)
FilterOut(list, id) == SelectSeq(list, LAMBDA t : t.id # id)

\* delete().eq('id', id)
DeleteRow(table, id) == SelectSeq(table, LAMBDA r : r.id # id)

\* The sequence without its element i.
RemoveAt(seq, i) == SubSeq(seq, 1, i - 1) \o SubSeq(seq, i + 1, Len(seq))

(***************************************************************************)
(* TodoForm and MainPage: inputs                                           *)
(***************************************************************************)
MaxRows == 2         \* rows inserted into the store
MaxOps == 2          \* handler calls that wait for the store at a time

\* What the user types into the category field.
CategoryTexts ==
    {<<>>, <<"a", ",", " ", "b">>, <<"a", ",", ",", "b", ",">>, <<" ">>}

\* What the user enters into the form: a title with every category text,
\* a due date with and without a due time, a due time alone, no title.
TypedForms(tz) ==
    {FormValues(Str(<<"T">>), Str(<<>>), Medium, Str(c), NoDate, Absent) :
        c \in CategoryTexts}
    \cup {FormValues(Str(<<"T">>), Str(<<>>), High, Str(<<>>), d, t) :
            d \in {NoDate, DateAt((BaseDay + 1) * MinutesPerDay - tz)},
            t \in {Absent, Str(<<"1", "4", ":", "3", "0">>)}}
    \cup {FormValues(Str(<<>>), Str(<<>>), Medium, Str(<<>>), NoDate, Absent)}

\* What the user types into the prompt field.
AiPrompts == {<<>>, <<" ">>, <<"a">>, Chars(MinPromptLen), Chars(FallbackTitleLen + 1)}

Users == {"u1", "none"}

FormUnmounted ==
    /\ values = DefaultValues(NoRow, 0)
    /\ aiPrompt = <<>>
    /\ isAiLoading = FALSE
    /\ fmPc = "idle"
    /\ fmTz = 0

PageUnmounted ==
    /\ user = "none"
    /\ pgLoading = FALSE
    /\ editTodo = NoRow
    /\ ops = <<>>
    /\ rows = <<>>
    /\ created = 0

\* The page after its first load, for a user with no todos yet.
InitPage ==
    /\ user \in Users
    /\ pgLoading = FALSE
    /\ editTodo = NoRow
    /\ ops = <<>>
    /\ rows = <<>>
    /\ created = 0
    /\ todos = <<>>
    /\ uiToday = BaseDay
    /\ activeTab = "today"
    /\ isLoading = FALSE
    /\ result = NoResult
    /\ uiPc = "idle"
    /\ uiReq = NoAnalyzeBody
    /\ uiFetches = 0

InitForm ==
    /\ fmTz \in Offsets
    /\ values = DefaultValues(NoRow, fmTz)
    /\ aiPrompt = <<>>
    /\ isAiLoading = FALSE
    /\ fmPc = "idle"

\* The variables of TodoAnalysis but its prop todos.
viewVars == <<uiToday, activeTab, isLoading, result, uiPc, uiReq, uiFetches>>

(***************************************************************************)
(* TodoForm: actions                                                       *)
(***************************************************************************)
\* The handler instance is gone once its Response was delivered.
ExtractGone ==
    /\ exPc' = "idle"
    /\ exBody' = NoBody
    /\ exNow' = 0
    /\ exTz' = 0
    /\ exPrompt' = <<>>
    /\ exCalls' = 0
    /\ exInstr' = NoInstr
    /\ exAnswer' = NoAnswer
    /\ exError' = NoError
    /\ exResp' = NoResponse

\* The user enters values into the fields of the form.
FillForm ==
    /\ \E v \in TypedForms(fmTz) :
        /\ v # values
        /\ values' = v
    /\ UNCHANGED <<aiPrompt, isAiLoading, fmPc, fmTz>>
    /\ UNCHANGED <<exVars, anVars, uiVars, pgVars, ssVars>>

\* onChange of the prompt field, which create mode shows and isAiLoading
\* disables.
SetAiPrompt ==
    /\ editTodo = NoRow
    /\ ~isAiLoading
    /\ \E p \in AiPrompts :
        /\ p # aiPrompt
        /\ aiPrompt' = p
    /\ UNCHANGED <<values, isAiLoading, fmPc, fmTz>>
    /\ UNCHANGED <<exVars, anVars, uiVars, pgVars, ssVars>>

\* handleAiGenerate, from the click to the await of fetch.
HandleAiGenerate ==
    /\ editTodo = NoRow
    /\ fmPc = "idle"
    /\ ~isAiLoading
    /\ Trim(aiPrompt) # <<>>
    /\ isAiLoading' = TRUE
    /\ fmPc' = "fetchSent"
    /\ UNCHANGED <<values, aiPrompt, fmTz>>
    /\ UNCHANGED <<exVars, anVars, uiVars, pgVars, ssVars>>

\* The request of the form reaches the extraction endpoint.
AiRequestArrives ==
    /\ fmPc = "fetchSent"
    /\ ExtractPost(PromptBody(Str(aiPrompt)))
    /\ UNCHANGED <<anVars, uiVars, pgVars, fmVars, ssVars>>

\* handleAiGenerate, from the completion of fetch to its return.
\* Mutant of AiStoreCalls: the handler inserts the values it has set.
AiStoreCallsInsert(calls, v) ==
    Append(calls, Op("add", "write", 0, FALSE, AddRecord(v, user), <<>>, TRUE))

\* The calls of the store after handleAiGenerate has set the values v: the
\* handler calls form.setValue only, neither onSubmit nor the store.
AiStoreCalls(calls, v) == calls

\* handleAiGenerate from the Response of fetch to its end.
HandleAiGenerateResponse ==
    /\ fmPc = "fetchSent"
    /\ exPc = "done"
    /\ IF exResp.error # ""
       THEN UNCHANGED <<values, ops>>
       ELSE LET p == Prefill(values, exResp.todo, aiPrompt)
            IN  /\ values' = p.values
                /\ ops' = AiStoreCalls(ops, p.values)
    /\ isAiLoading' = FALSE
    /\ fmPc' = "idle"
    /\ ExtractGone
    /\ UNCHANGED <<aiPrompt, fmTz>>
    /\ UNCHANGED <<user, pgLoading, editTodo, rows, created>>
    /\ UNCHANGED <<anVars, uiVars, ssVars>>

\* fetch rejects: the request never reached the endpoint.
HandleAiGenerateFetchFails ==
    /\ fmPc = "fetchSent"
    /\ exPc = "idle"
    /\ isAiLoading' = FALSE
    /\ fmPc' = "idle"
    /\ UNCHANGED <<values, aiPrompt, fmTz>>
    /\ UNCHANGED <<exVars, anVars, uiVars, pgVars, ssVars>>

\* The add calls that wait for their insert.
PendingAdds == Len(SelectSeq(ops, LAMBDA op : op.kind = "add" /\ op.stage = "write"))

\* form.reset() and setAiPrompt("") of handleSubmit, when the form that was
\* submitted had no initialData.
ResetAfterSubmit(create) ==
    IF create
    THEN /\ values' = DefaultValues(NoRow, fmTz)
         /\ aiPrompt' = <<>>
    ELSE UNCHANGED <<values, aiPrompt>>

\* handleSubmit with handleAddTodo or handleEditTodo, from the submit of the
\* valid form to the await of the store (or to the return, when no user is
\* signed in).
HandleSubmit ==
    /\ ValidForm(values)
    /\ Len(ops) < MaxOps
    /\ LET merged == [values EXCEPT !.due_date = MergeDate(values, fmTz)]
           create == editTodo = NoRow
       IN  IF user = "none"
           THEN /\ ResetAfterSubmit(create)
                /\ UNCHANGED ops
           ELSE /\ create => created + PendingAdds < MaxRows
                /\ ops' = Append(ops,
                       IF create
                       THEN Op("add", "write", 0, FALSE, AddRecord(merged, user),
                               <<>>, TRUE)
                       ELSE Op("edit", "write", editTodo.id, FALSE, EditRecord(merged),
                               <<>>, FALSE))
                /\ UNCHANGED <<values, aiPrompt>>
    /\ UNCHANGED <<isAiLoading, fmPc, fmTz>>
    /\ UNCHANGED <<user, pgLoading, editTodo, rows, created>>
    /\ UNCHANGED <<exVars, anVars, uiVars, ssVars>>

(***************************************************************************)
(* MainPage: actions                                                       *)
(***************************************************************************)
\* The form is mounted again when its key, the id of editTodo, changes.
Remount(todo) ==
    IF todo.id # editTodo.id
    THEN /\ values' = DefaultValues(todo, fmTz)
         /\ aiPrompt' = <<>>
         /\ isAiLoading' = FALSE
    ELSE UNCHANGED <<values, aiPrompt, isAiLoading>>

\* handleToggleTodo, from the click on the checkbox of a todo to the await
\* of the update.
HandleToggleTodo ==
    /\ Len(ops) < MaxOps
    /\ \E i \in 1..Len(todos) :
        LET id      == todos[i].id
            checked == ~todos[i].completed
        IN  /\ todos' = MapCompleted(todos, id, checked)
            /\ ops' = Append(ops, Op("toggle", "write", id, checked, NoRow, todos, FALSE))
    /\ UNCHANGED <<user, pgLoading, editTodo, rows, created>>
    /\ UNCHANGED <<exVars, anVars, viewVars, fmVars, ssVars>>

\* handleDeleteTodo, from the confirmed click on the delete button of a todo
\* to the await of the delete.
HandleDeleteTodo ==
    /\ Len(ops) < MaxOps
    /\ \E i \in 1..Len(todos) :
        ops' = Append(ops, Op("delete", "write", todos[i].id, FALSE, NoRow, todos, FALSE))
    /\ UNCHANGED <<user, pgLoading, editTodo, rows, created>>
    /\ UNCHANGED <<exVars, anVars, uiVars, fmVars, ssVars>>

\* onEditRequest: the edit button of a todo, while no call waits for the
\* store and no conversion is running.
OnEditRequest ==
    /\ ops = <<>>
    /\ fmPc = "idle"
    /\ \E i \in 1..Len(todos) :
        /\ todos[i] # editTodo
        /\ editTodo' = todos[i]
        /\ Remount(todos[i])
    /\ UNCHANGED <<user, pgLoading, ops, rows, created, fmPc, fmTz>>
    /\ UNCHANGED <<exVars, anVars, uiVars, ssVars>>

\* The button that leaves the edit mode.
CancelEdit ==
    /\ editTodo # NoRow
    /\ editTodo' = NoRow
    /\ Remount(NoRow)
    /\ UNCHANGED <<user, pgLoading, ops, rows, created, fmPc, fmTz>>
    /\ UNCHANGED <<exVars, anVars, uiVars, ssVars>>

\* The store answers an insert, an update or a delete, and the handler runs to its
\* next await or to its return.
StoreWrite ==
    /\ \E i \in 1..Len(ops), ok \in BOOLEAN :
        LET op == ops[i]
        IN  /\ op.stage = "write"
            /\ IF op.kind = "toggle"
               THEN /\ IF ok
                       THEN /\ rows' = UpdateCompleted(rows, op.id, op.checked)
                            /\ UNCHANGED todos
                       ELSE /\ todos' = MapCompleted(op.snapshot, op.id, ~op.checked)
                            /\ UNCHANGED rows
                    /\ ops' = RemoveAt(ops, i)
                    /\ UNCHANGED <<created, pgLoading, values, aiPrompt>>
               ELSE IF op.kind = "delete"
               THEN /\ IF ok
                       THEN /\ rows' = DeleteRow(rows, op.id)
                            /\ todos' = FilterOut(op.snapshot, op.id)
                       ELSE UNCHANGED <<rows, todos>>
                    /\ ops' = RemoveAt(ops, i)
                    /\ UNCHANGED <<created, pgLoading, values, aiPrompt>>
               ELSE IF ok
               THEN \* fetchTodos begins
                    /\ IF op.kind = "add"
                       THEN /\ rows' = InsertRow(rows, op.record, created + 1)
                            /\ created' = created + 1
                       ELSE /\ rows' = UpdateRow(rows, op.record, op.id)
                            /\ UNCHANGED created
                    /\ pgLoading' = TRUE
                    /\ ops' = [ops EXCEPT ![i].stage = "select"]
                    /\ UNCHANGED <<todos, values, aiPrompt>>
               ELSE \* the handler alerts and returns to handleSubmit
                    /\ ops' = RemoveAt(ops, i)
                    /\ ResetAfterSubmit(op.create)
                    /\ UNCHANGED <<rows, created, pgLoading, todos>>
    /\ UNCHANGED <<user, editTodo, isAiLoading, fmPc, fmTz>>
    /\ UNCHANGED <<exVars, anVars, viewVars, ssVars>>

\* The store answers the select of fetchTodos, and handleAddTodo or
\* handleEditTodo and handleSubmit run to their return.
StoreSelect ==
    /\ \E i \in 1..Len(ops), ok \in BOOLEAN :
        LET op == ops[i]
        IN  /\ op.stage = "select"
            /\ todos' = IF ok THEN SelectRows(rows) ELSE todos
            /\ pgLoading' = FALSE
            /\ ops' = RemoveAt(ops, i)
            /\ IF op.kind = "edit"
               THEN /\ editTodo' = NoRow
                    /\ Remount(NoRow)
               ELSE /\ ResetAfterSubmit(op.create)
                    /\ UNCHANGED <<editTodo, isAiLoading>>
    /\ UNCHANGED <<user, rows, created, fmPc, fmTz>>
    /\ UNCHANGED <<exVars, anVars, viewVars, ssVars>>

(***************************************************************************)
(* updateSession, the session check of every request                       *)
(***************************************************************************)
\* String.prototype.startsWith
StartsWith(s, prefix) ==
    Len(s) >= Len(prefix) /\ SubSeq(s, 1, Len(prefix)) = prefix

RootPath      == <<"/">>
LoginPath     == <<"/", "l", "o", "g", "i", "n">>
SignupPath    == <<"/", "s", "i", "g", "n", "u", "p">>
ProtectedPath == <<"/", "p", "r", "o", "t", "e", "c", "t", "e", "d">>

\* Mutant of IsProtectedRoute: every path is protected.
IsProtectedRouteAll(pathname) == StartsWith(pathname, RootPath)

IsProtectedRoute(pathname) ==
    pathname = RootPath \/ StartsWith(pathname, ProtectedPath)

\* Mutant of IsAuthRoute: the sign-up page is no auth route.
IsAuthRouteLoginOnly(pathname) == StartsWith(pathname, LoginPath)

IsAuthRoute(pathname) ==
    StartsWith(pathname, LoginPath) \/ StartsWith(pathname, SignupPath)

\* The responses of updateSession: NextResponse.redirect(url) with the
\* pathname of the url, and NextResponse.next.
Redirect(pathname) == [kind |-> "redirect", pathname |-> pathname]
PassThrough        == [kind |-> "next", pathname |-> <<>>]
NoSessionResponse  == [kind |-> "none", pathname |-> <<>>]

UpdateSession(sessionUser, pathname) ==
    IF sessionUser = "none" /\ IsProtectedRoute(pathname)
    THEN Redirect(LoginPath)
    ELSE IF sessionUser # "none" /\ IsAuthRoute(pathname)
    THEN Redirect(RootPath)
    ELSE PassThrough

MaxHops == 3         \* redirects the browser follows for one navigation

\* The paths a browser asks for: the routes and paths that begin or end
\* like them.
PathTails == {<<>>, <<"x">>, <<"/">>, <<"/", "x">>, <<"/", "l", "o", "g", "i", "n">>}
Paths ==
    {stem \o tail :
        stem \in {<<>>, LoginPath, SignupPath, ProtectedPath,
                  <<"/", "a", "p", "i">>, <<"/", "l", "o", "g">>,
                  <<"/", "p", "r", "o", "t", "e", "c", "t">>},
        tail \in PathTails} \ {<<>>, <<"x">>}

NoSession ==
    /\ ssUser = "none"
    /\ ssPath = RootPath
    /\ ssResp = NoSessionResponse
    /\ ssHops = 0

\* A browser with or without a session asks for a path.
InitSession ==
    /\ ssUser \in Users
    /\ ssPath \in Paths
    /\ ssResp = NoSessionResponse
    /\ ssHops = 0

\* updateSession answers the request.
UpdateSessionReturns ==
    /\ ssResp = NoSessionResponse
    /\ ssResp' = UpdateSession(ssUser, ssPath)
    /\ UNCHANGED <<ssUser, ssPath, ssHops>>
    /\ UNCHANGED <<exVars, anVars, uiVars, pgVars, fmVars>>

\* The browser follows a redirect: it asks for the pathname of the url.
FollowRedirect ==
    /\ ssResp.kind = "redirect"
    /\ ssHops < MaxHops
    /\ ssPath' = ssResp.pathname
    /\ ssResp' = NoSessionResponse
    /\ ssHops' = ssHops + 1
    /\ UNCHANGED ssUser
    /\ UNCHANGED <<exVars, anVars, uiVars, pgVars, fmVars>>

(***************************************************************************)
(* Specifications                                                          *)
(***************************************************************************)
\* One request to the extraction endpoint.
InitE ==
    InitExtract /\ InitAnalyze /\ ViewUnmounted /\ PageUnmounted /\ FormUnmounted /\ NoSession
NextExtract == ExtractReceive \/ ExtractAnswer
SpecExtract == InitE /\ [][NextExtract]_vars

\* Requests to the analysis endpoint, one at a time.
NextAnalyze == AnalyzeReceive \/ AnalyzeAnswer \/ AnalyzeReturn
SpecAnalyze == InitE /\ [][NextAnalyze]_vars

\* Both endpoints.  The handlers share no state: a request to one of them
\* is handled while the other one is idle.
ExtractStep == anPc = "idle" /\ NextExtract
AnalyzeStep == exPc = "idle" /\ NextAnalyze
NextPipelines == ExtractStep \/ AnalyzeStep
SpecPipelines == InitE /\ [][NextPipelines]_vars

\* Both endpoints with their scheduling: a handler that has built its
\* Response returns it.  The arrival of a request and the answer of the
\* completion service are steps of the environment: nothing makes the
\* service answer, and no handler sets a timeout for sendMessage.
SpecPipelinesLive ==
    /\ SpecPipelines
    /\ WF_vars(AnalyzeReturn /\ exPc = "idle")

\* The analysis view, the requests it makes and the requests of other clients.
InitV ==
    InitExtract /\ InitAnalyze /\ InitView /\ PageUnmounted /\ FormUnmounted /\ NoSession
\* The endpoint handles one request at a time.  The steps of the view and
\* the handling of the request of another client change disjoint variables
\* and commute: the view stands still while such a request is handled.
ViewStep ==
    /\ anPc = "idle" \/ uiPc = "fetchSent"
    /\ \/ HandleAnalyze
       \/ ViewRequestArrives
       \/ HandleAnalyzeResponse
       \/ HandleAnalyzeFetchFails
       \/ SwitchTab
       \/ TodosChange
NextView ==
    \/ AnalyzeReceive
    \/ AnalyzeAnswer
    \/ AnalyzeReturn
    \/ ViewStep
SpecView == InitV /\ [][NextView]_vars

\* The Response of the extraction endpoint is delivered to its client.
ExtractReturn ==
    /\ exPc = "done"
    /\ ExtractGone
    /\ UNCHANGED <<anVars, uiVars, pgVars, fmVars, ssVars>>

\* Both endpoints with requests in flight at the same time: a step of one
\* handler may come between any two steps of the other one.  The requests
\* hold a short prompt or a list of one todo, the clocks stand still, and
\* the service answers the extraction with a worded payload, with no JSON
\* or with an error.
ServiceClockStands == exNow' \in {0, BaseDay * MinutesPerDay + 30} /\ exTz' = 0
ConcurrentAnswers ==
    {TextAnswer(text) : text \in UNION {Wordings(val) : val \in WordedPayloads}}
    \cup {TextAnswer(text) : text \in Gibberish}
    \cup {ErrorAnswer(e) : e \in UpstreamErrors}
ShortRequest(body) ==
    body.kind = "object" /\ IsString(body.prompt) =>
        Len(body.prompt.v) <= MinPromptLen + MaxPad
SmallRequest(body) ==
    body.kind = "object" /\ body.todos.t = "array" =>
        /\ Len(body.todos.items) <= 1
        /\ body.timeframe = "today"
NextConcurrent ==
    \/ ExtractReceive /\ ShortRequest(exBody') /\ ServiceClockStands
    \/ ExtractAnswer /\ exAnswer' \in ConcurrentAnswers
    \/ ExtractReturn
    \/ AnalyzeReceive /\ SmallRequest(anBody') /\ anNow' \in {0, BaseDay * MinutesPerDay + 30} /\ anTz' = 0
    \/ AnalyzeAnswer
    \/ AnalyzeReturn
SpecConcurrent == InitE /\ [][NextConcurrent]_vars

\* The form with its conversion, and the page that stores what the form
\* submits.  The user fills the form and types the prompt, converts the
\* prompt (again, as long as the conversion fails) and submits one todo;
\* the clock of the service stands still.
InitF == InitExtract /\ InitAnalyze /\ InitPage /\ InitForm /\ NoSession
Typed == values \in TypedForms(fmTz) \cup {DefaultValues(NoRow, fmTz)}
UserStep ==
    /\ created = 0 /\ ops = <<>>
    /\ \/ Typed /\ FillForm
       \/ Typed /\ SetAiPrompt
       \/ Typed /\ HandleAiGenerate
       \/ HandleSubmit
NextForm ==
    \/ UserStep
    \/ AiRequestArrives /\ ServiceClockStands
    \/ ExtractAnswer
    \/ HandleAiGenerateResponse
    \/ HandleAiGenerateFetchFails
    \/ StoreWrite
    \/ StoreSelect
SpecForm == InitF /\ [][NextForm]_vars

\* The page with its list, the form in both modes and the store, in a
\* browser in UTC.  While no call waits for the store the user enters a
\* title and categories: none, or one with consecutive commas and a comma
\* at its end.
InitP == InitF /\ fmTz = 0
PageFill ==
    /\ ops = <<>>
    /\ FillForm
    /\ values'.due_date = NoDate
    /\ values'.priority = Medium
    /\ values'.category.v \in {<<>>, <<"a", ",", ",", "b", ",">>}
NextPage ==
    \/ PageFill
    \/ HandleSubmit
    \/ HandleToggleTodo
    \/ OnEditRequest
    \/ CancelEdit
    \/ StoreWrite
    \/ StoreSelect
SpecPage == InitP /\ [][NextPage]_vars

\* The session check of one navigation: the request and the requests the
\* browser makes as it follows the redirects, for a session that stays as
\* it is.
InitS ==
    /\ InitExtract /\ InitAnalyze /\ ViewUnmounted /\ PageUnmounted /\ FormUnmounted
    /\ InitSession
NextSession == UpdateSessionReturns \/ FollowRedirect
SpecSession == InitS /\ [][NextSession]_vars

\* The middleware answers every request, and the browser follows every
\* redirect it is sent.
SpecSessionLive ==
    /\ SpecSession
    /\ WF_vars(UpdateSessionReturns)
    /\ WF_vars(FollowRedirect)

\* The list of the page for a user with two todos, one of them completed
\* or none, with toggles, deletes and edits in flight together.
InitL ==
    /\ InitExtract /\ InitAnalyze /\ NoSession
    /\ fmTz = 0
    /\ values = DefaultValues(NoRow, fmTz)
    /\ aiPrompt = <<>>
    /\ isAiLoading = FALSE
    /\ fmPc = "idle"
    /\ user = "u1"
    /\ pgLoading = FALSE
    /\ editTodo = NoRow
    /\ ops = <<>>
    /\ \E done \in BOOLEAN :
        rows = <<Row(1, "u1", Str(<<"T">>), Str(<<>>), Medium, <<>>, NoDate, done, 1),
                 Row(2, "u1", Str(<<"T">>), Str(<<>>), High, <<>>, NoDate, FALSE, 2)>>
    /\ created = MaxRows
    /\ todos = SelectRows(rows)
    /\ uiToday = BaseDay
    /\ activeTab = "today"
    /\ isLoading = FALSE
    /\ result = NoResult
    /\ uiPc = "idle"
    /\ uiReq = NoAnalyzeBody
    /\ uiFetches = 0
NextList ==
    \/ HandleToggleTodo
    \/ HandleDeleteTodo
    \/ OnEditRequest
    \/ HandleSubmit
    \/ StoreWrite
    \/ StoreSelect
SpecList == InitL /\ [][NextList]_vars

\* The statistics of the analysis view for lists of up to MaxCount todos
\* in the timeframe.
InitC ==
    /\ InitExtract /\ InitAnalyze /\ PageUnmounted /\ FormUnmounted /\ NoSession
    /\ InitCounted
NextCounted == TodoCompleted \/ SwitchTab
SpecCounted == InitC /\ [][NextCounted]_vars

(***************************************************************************)
(* Properties                                                              *)
(***************************************************************************)
\* The input with its leading and trailing whitespace removed and every
\* other run of whitespace replaced by one space: the last character of a
\* run between two words stays, as a space.
CollapsedInput(raw) ==
    LET idx == SelectSeq(Indices(raw), LAMBDA i :
                   \/ ~IsWs(raw[i])
                   \/ /\ i < Len(raw)
                      /\ ~IsWs(raw[i + 1])
                      /\ \E j \in 1..(i - 1) : ~IsWs(raw[j]))
    IN  [k \in 1..Len(idx) |-> IF IsWs(raw[idx[k]]) THEN " " ELSE raw[idx[k]]]

\* The calendar date of now in the time zone of the service.
LocalDate(now, tz) == IsoDate((now + tz) \div MinutesPerDay)

\* The JSON value the service answered, whatever surrounds it.
AnsweredJson(text) ==
    LET js == SelectSeq(text, LAMBDA tok : tok.k = "json")
    IN  IF Len(js) = 1 THEN js[1].val ELSE NoPayload

\* The extraction answered 200 to an answer of the service that is an object.
ExtractedObject ==
    /\ exPc = "done"
    /\ exResp.status = 200
    /\ AnsweredJson(exAnswer.text).shape = "object"

UpstreamTodo == AnsweredJson(exAnswer.text)

\* The request body is an object whose prompt is missing, is no text, or is
\* too short or too long once trimmed and collapsed.
PromptRejectable(body) ==
    /\ body.kind = "object"
    /\ \/ ~IsString(body.prompt)
       \/ Len(CollapsedInput(body.prompt.v)) < MinPromptLen
       \/ Len(CollapsedInput(body.prompt.v)) > MaxPromptLen

\* C1: a request whose prompt is missing, is not text, or has a normalized
\* length below 2 or above 500 is answered with status 400 and no todo, and
\* the handler has made no call to the completion service.
C1_InvalidPromptRejected ==
    (exPc # "idle" /\ PromptRejectable(exBody)) =>
        /\ exPc = "done"
        /\ exResp.status = 400
        /\ exResp.todo = NoPayload
        /\ exCalls = 0
        /\ exAnswer = NoAnswer

\* A prompt with whitespace to remove that is too long even without it.
C1_Witness ==
    /\ exPc = "done"
    /\ IsString(exBody.prompt)
    /\ Len(CollapsedInput(exBody.prompt.v)) > MaxPromptLen
    /\ Len(exBody.prompt.v) > Len(CollapsedInput(exBody.prompt.v))
    /\ exResp.status = 400
    /\ exCalls = 0

\* C2: when the due date answered by the service is a calendar date before
\* the date of now (in the time zone of the service), the due date of the
\* result is the date of now.
C2_PastDueDateBecomesToday ==
    (/\ ExtractedObject
     /\ IsString(UpstreamTodo.due_date)
     /\ ~DateOfText(UpstreamTodo.due_date.v).nan
     /\ DateOfText(UpstreamTodo.due_date.v).at \div MinutesPerDay
            < (exNow + exTz) \div MinutesPerDay)
    => exResp.todo.due_date = Str(LocalDate(exNow, exTz))

\* The text parses neither as it is nor with its code fence stripped.
Unparseable(answer) ==
    /\ answer.kind = "text"
    /\ ~JsonParse(answer.text).ok
    /\ ~JsonParse(TrimText(StripFence(answer.text))).ok

\* C3: an answer of the service that parses neither directly nor after the
\* fence was stripped once makes both endpoints answer 500 with an error
\* body, and no todo or analysis.
C3_UnparseableIs500 ==
    /\ (exPc = "done" /\ Unparseable(exAnswer)) =>
           /\ exResp.status = 500
           /\ exResp.error # ""
           /\ exResp.todo = NoPayload
    /\ (anPc = "done" /\ Unparseable(anAnswer)) =>
           /\ anResp.status = 500
           /\ anResp.body.shape = "error"

\* A JSON value between an opening fence, with or without the word json,
\* and a closing fence, each on a line of its own.
Fenced(text) ==
    \E val \in {AnsweredJson(text)} :
        \/ text = <<Fence, Word("json"), Nl, Json(val), Nl, Fence>>
        \/ text = <<Fence, Nl, Json(val), Nl, Fence>>

\* C4: a fenced JSON object is parsed to the same result as the object
\* without its fence.
C4_FenceRoundTrip ==
    (/\ exPc = "done"
     /\ exAnswer.kind = "text"
     /\ Fenced(exAnswer.text)
     /\ AnsweredJson(exAnswer.text).shape = "object")
    => exResp = ExtractFinish(TextAnswer(<<Json(AnsweredJson(exAnswer.text))>>),
                              exPrompt, exInstr.currentDate).resp

\* C5: the priority of every result is one of high, medium and low.
C5_PriorityValid ==
    ExtractedObject => exResp.todo.priority \in {Str(High), Str(Medium), Str(Low)}

\* C6: a failure is answered 400 when the input was rejected (by the
\* validation, or by the service with status 400), 429 when the service
\* limited the rate, and 500 in every other case.
C6_FailureStatus ==
    (exPc = "done" /\ exResp.status # 200) =>
        LET rejected    == \/ exAnswer = NoAnswer /\ exError = NoError
                           \/ exAnswer.kind = "error" /\ exAnswer.error.status = 400
            rateLimited == exAnswer.kind = "error" /\ exAnswer.error.status = 429
        IN  exResp.status = IF rejected THEN 400
                            ELSE IF rateLimited THEN 429 ELSE 500

\* C7: when the service answered no title, the title is the normalized input,
\* cut to its first 30 characters and an ellipsis when it is longer than 30.
C7_FallbackTitle ==
    (ExtractedObject /\ UpstreamTodo.title = Absent) =>
        LET input == CollapsedInput(exBody.prompt.v)
        IN  exResp.todo.title =
                Str(IF Len(input) > 30
                    THEN SubSeq(input, 1, 30) \o <<".", ".", ".">>
                    ELSE input)

\* No title was answered for an input of more than 30 characters in which
\* whitespace was collapsed.
C7_Witness ==
    /\ ExtractedObject
    /\ UpstreamTodo.title = Absent
    /\ Len(CollapsedInput(exBody.prompt.v)) > 30
    /\ Len(exBody.prompt.v) > Len(CollapsedInput(exBody.prompt.v))
    /\ Len(exResp.todo.title.v) = 33

\* C8: a title of more than 50 characters answered without a description
\* becomes the description, and the title is its first 47 characters and an
\* ellipsis.
C8_LongTitleMoved ==
    (/\ ExtractedObject
     /\ IsString(UpstreamTodo.title)
     /\ Len(UpstreamTodo.title.v) > 50
     /\ UpstreamTodo.description \in {Absent, Str(<<>>)})
    => /\ exResp.todo.description = UpstreamTodo.title
       /\ exResp.todo.title =
              Str(SubSeq(UpstreamTodo.title.v, 1, 47) \o <<".", ".", ".">>)

C8_Witness ==
    /\ ExtractedObject
    /\ IsString(UpstreamTodo.title)
    /\ Len(UpstreamTodo.title.v) > 50
    /\ UpstreamTodo.description = Absent
    /\ Len(exResp.todo.description.v) > 50
    /\ Len(exResp.todo.title.v) = 50

\* C9: the title of a result is a text of 1 to 50 characters, whether the
\* service answered a title, none, an empty or an over-long one.
C9_TitleBounded ==
    (ExtractedObject /\ UpstreamTodo.title.t \in {"absent", "null", "str"}) =>
        /\ IsString(exResp.todo.title)
        /\ Len(exResp.todo.title.v) >= 1
        /\ Len(exResp.todo.title.v) <= 50

\* An over-long title came out with exactly 50 characters.
C9_Witness ==
    /\ ExtractedObject
    /\ IsString(UpstreamTodo.title)
    /\ Len(UpstreamTodo.title.v) > 50
    /\ Len(exResp.todo.title.v) = 50

\* The empty-state result: a summary, no urgent task, one insight and one
\* recommendation.
IsEmptyState(r) ==
    /\ r.shape = "object"
    /\ r.summary.t = "str"
    /\ r.urgentTasks = AList(<<>>)
    /\ r.insights.t = "list" /\ Len(r.insights.items) = 1
    /\ r.recommendations.t = "list" /\ Len(r.recommendations.items) = 1
    /\ r.extra = {}

\* The endpoint answers an empty list with the empty-state result and
\* without a call to the service.
EndpointShortCut ==
    (anPc # "idle" /\ anBody.kind = "object" /\ anBody.todos = TodosList(<<>>)) =>
        /\ anPc = "done"
        /\ anResp.status = 200
        /\ IsEmptyState(anResp.body)
        /\ anCalls = 0
        /\ anAnswer = NoAnswer

\* The view fetches no analysis of an empty list.
ViewFetchesNonEmpty ==
    uiPc = "fetchSent" => Len(uiReq.todos.items) > 0

\* A step of the idle view that sets a result while no todo is in the
\* timeframe sets the empty-state result, and neither fetches nor calls.
ViewShortCut ==
    (/\ uiPc = "idle"
     /\ Len(TargetTodos(todos, activeTab, uiToday)) = 0
     /\ result' # result
     /\ result' # NoResult)
    => /\ IsEmptyState(result')
       /\ uiPc' = "idle"
       /\ uiFetches' = 0
       /\ ~isLoading'
       /\ anCalls' = anCalls

\* C10: for every timeframe, the analysis of an empty set of todos is the
\* empty-state result, in the endpoint and in the view, and the completion
\* service is not called.
C10_EmptyAnalysis ==
    /\ [](EndpointShortCut /\ ViewFetchesNonEmpty)
    /\ [][ViewShortCut]_vars

\* The endpoint answered an empty list for the timeframe week.
C10_Witness ==
    /\ anPc = "done"
    /\ anBody.todos = TodosList(<<>>)
    /\ anBody.timeframe = "week"
    /\ IsEmptyState(anResp.body)
    /\ anCalls = 0

\* The request is malformed: its body is not well-formed JSON or not an
\* object, or its member todos is missing or not a list.
MalformedRequest(body) ==
    \/ body.kind \in {"malformed", "null"}
    \/ body.kind = "object" /\ body.todos.t # "array"

\* C11: the analysis endpoint answers a malformed request (todos missing or
\* not a list, or a body that is not well-formed) with status 400 and without
\* a call to the completion service, and every other failure with status 500.
C11_AnalysisFailureStatus ==
    anPc = "done" =>
        /\ MalformedRequest(anBody) => (anResp.status = 400 /\ anCalls = 0)
        /\ (~MalformedRequest(anBody) /\ anResp.body.shape = "error")
               => anResp.status = 500

\* Two lists of todos that differ at most in the ids, the owners and the
\* descriptions of their todos.
SamePublicFields(l1, l2) ==
    /\ Len(l1) = Len(l2)
    /\ \A i \in 1..Len(l1) :
        /\ l1[i].title = l2[i].title
        /\ l1[i].priority = l2[i].priority
        /\ l1[i].due_date = l2[i].due_date
        /\ l1[i].due_time = l2[i].due_time
        /\ l1[i].completed = l2[i].completed
        /\ l1[i].category = l2[i].category
        /\ l1[i].created_at = l2[i].created_at

\* The requests that differ from the request handled at most in ids, owners
\* and descriptions.
Lookalikes ==
    {b \in AnalyzeBodies :
        /\ b.kind = "object" /\ b.todos.t = "array"
        /\ b.timeframe = anBody.timeframe
        /\ SamePublicFields(b.todos.items, anBody.todos.items)}

\* C12: the message sent to the completion service is the message that every
\* request with the same titles, priorities, due dates and times, completion
\* flags, categories, creation times and timeframe sends, whatever its
\* descriptions, ids and owners are; no todo of the message has a member
\* description, id or user_id.
C12_ProjectionOnly ==
    anCalls > 0 =>
        /\ \A b \in Lookalikes :
               AnalyzePrompt(b.timeframe, b.todos.items) = anSent
        /\ \A i \in 1..Len(anSent.todosText) :
               DOMAIN anSent.todosText[i] \cap {"description", "id", "user_id"} = {}

\* A list with a private description was sent, and another request differs
\* from it in descriptions, ids and owners only.
C12_Witness ==
    /\ anCalls > 0
    /\ Len(anSent.todosText) = 2
    /\ anBody.todos.items[2].description = "private note"
    /\ \E b \in Lookalikes :
           /\ b.todos.items[2].description # "private note"
           /\ b.todos.items[1].id # anBody.todos.items[1].id
           /\ b.todos.items[1].user_id # anBody.todos.items[1].user_id

\* A list of texts.
IsTextList(x) == x.t = "list"

\* An object with exactly the four members of an analysis result.
IsAnalysisResult(r) ==
    /\ r.shape = "object"
    /\ r.summary.t = "str"
    /\ IsTextList(r.urgentTasks)
    /\ IsTextList(r.insights)
    /\ IsTextList(r.recommendations)
    /\ r.extra = {}

\* C13: every successful response of the analysis endpoint is an object
\* with exactly the members summary (a text), urgentTasks, insights and
\* recommendations (lists of texts), whatever JSON the service answered.
C13_AnalysisResultShape ==
    (anPc = "done" /\ anResp.status = 200) => IsAnalysisResult(anResp.body)

\* A step of a handler that is waiting for the completion service, or that
\* has returned, calls the service no more.
NoSecondCall ==
    /\ exPc # "idle" => exCalls' = exCalls
    /\ (anPc # "idle" /\ anPc' # "idle") => anCalls' = anCalls

\* C14: an invocation of the extraction or of the analysis pipeline calls
\* the completion service at most once: after the failure of the service or
\* an answer that is not JSON the failure is reported without another call.
C14_AtMostOneCall ==
    /\ [](exCalls <= 1 /\ anCalls <= 1)
    /\ [][NoSecondCall]_vars

\* The extraction handler reported an answer that is not JSON, after one call.
C14_Witness ==
    /\ exPc = "done"
    /\ Unparseable(exAnswer)
    /\ exResp.status # 200
    /\ exCalls = 1

\* The outcome of an invocation: success, validation failure or upstream failure.
Outcome(status) ==
    IF status = 200 THEN "success"
    ELSE IF status = 400 THEN "validation failure"
    ELSE IF status \in {429, 500} THEN "upstream failure"
    ELSE "none"

\* C15: every invocation of the extraction or of the analysis pipeline
\* completes with one of the outcomes success, validation failure and
\* upstream failure, also when the completion service never answers.
C15_AlwaysCompletes ==
    /\ (exPc = "awaitSend") ~> (exPc = "done" /\ Outcome(exResp.status) # "none")
    /\ (anPc = "awaitSend") ~> (anPc = "done" /\ Outcome(anResp.status) # "none")

\* The clock time of now in the time zone of the service, "HH:MM".
LocalClock(now, tz) ==
    LET h == ((now + tz) \div 60) % 24
        m == (now + tz) % 60
    IN  Pad2(h) \o <<":">> \o Pad2(m)

\* C16: the current date and the current time given to the completion
\* service are the calendar date and the clock time of the same instant now
\* in the time zone of the service, for every instant and every offset.
C16_DateAndTimeLocal ==
    /\ exCalls > 0 =>
           /\ exInstr.currentDate = LocalDate(exNow, exTz)
           /\ exInstr.currentTime = LocalClock(exNow, exTz)
    /\ anCalls > 0 =>
           /\ anInstr.currentDate = LocalDate(anNow, anTz)
           /\ anInstr.currentTime = LocalClock(anNow, anTz)

\* A category entry is a text without whitespace at its ends, and not empty.
TrimmedNonEmpty(c) ==
    /\ Len(c) > 0
    /\ c[1] \notin {" ", "\t", "\n"}
    /\ c[Len(c)] \notin {" ", "\t", "\n"}

\* C17: every row that the add handler or the edit handler wrote to the
\* store has only trimmed, non-empty category entries, whatever text with
\* commas the category field held (an empty field, consecutive commas, a
\* comma at the end).
C17_CategoriesTrimmedNonEmpty ==
    \A i \in 1..Len(rows) :
        \A k \in 1..Len(rows[i].category) : TrimmedNonEmpty(rows[i].category[k])

\* The row with the given id, or NoRow.
RowOf(table, id) ==
    IF \E i \in 1..Len(table) : table[i].id = id
    THEN table[CHOOSE i \in 1..Len(table) : table[i].id = id]
    ELSE NoRow

\* A step keeps every row, with its id, its owner and its time of creation.
IdentityKept ==
    /\ Len(rows') >= Len(rows)
    /\ \A i \in 1..Len(rows) :
        /\ rows'[i].id = rows[i].id
        /\ rows'[i].user_id = rows[i].user_id
        /\ rows'[i].created_at = rows[i].created_at

\* A step that completes the update of an edit leaves completed of every
\* row as it is.
EditKeepsCompleted ==
    (\E i \in 1..Len(ops) :
        /\ ops[i].kind = "edit" /\ ops[i].stage = "write"
        /\ Len(ops') = Len(ops) /\ ops'[i].stage = "select")
    => /\ Len(rows') = Len(rows)
       /\ \A k \in 1..Len(rows) : rows'[k].completed = rows[k].completed

\* A step that completes a toggle changes at most completed of the row
\* that was toggled.
ToggleChangesCompletedOnly ==
    \A i \in 1..Len(ops) :
        (/\ ops[i].kind = "toggle"
         /\ ops' = RemoveAt(ops, i)
         /\ rows' # rows)
        => /\ Len(rows') = Len(rows)
           /\ \A k \in 1..Len(rows) :
                IF rows[k].id = ops[i].id
                THEN rows'[k] = [rows[k] EXCEPT !.completed = ops[i].checked]
                ELSE rows'[k] = rows[k]

\* C19: the id, the owner and created_at of a row never change: the edit
\* handler and the toggle of completed leave them as they are, the edit
\* handler leaves completed as it is, and the toggle changes completed of
\* the row it was called for and nothing else.
C19_IdentityImmutable ==
    [][IdentityKept /\ EditKeepsCompleted /\ ToggleChangesCompletedOnly]_vars

\* Of two rows one was completed by a toggle and the other one was edited.
C19_Witness ==
    /\ Len(rows) = 2
    /\ rows[1].completed
    /\ ~rows[2].completed
    /\ rows[1].category = <<<<"a">>, <<>>, <<"b">>, <<>>>>
    /\ rows[2].category = <<<<>>>>
    /\ ops = <<>>

\* A step of the natural-language conversion: of handleAiGenerate in the
\* form or of the endpoint it calls.
ConversionStep == fmPc' # fmPc \/ exPc' # exPc

\* C18: running the natural-language conversion never writes to the store of
\* the todos, whatever its outcome: no step of it changes the rows or starts
\* a call of the store, and a row is inserted only by an add that a submit of
\* the form has started.
C18_ConversionNeverWrites ==
    [][/\ ConversionStep => rows' = rows /\ created' = created /\ ops' = ops
       /\ Len(rows') > Len(rows) =>
            \E i \in 1..Len(ops) : ops[i].kind = "add" /\ ops[i].stage = "write"
       /\ Len(ops') > Len(ops) => ~ConversionStep]_vars

\* A conversion has prefilled the description of the form, and the store has
\* no row and no call waiting.
C18_Witness ==
    /\ fmPc = "idle"
    /\ values.description.v # <<>>
    /\ rows = <<>>
    /\ ops = <<>>
    /\ created = 0

\* handleAiGenerate finishes with a response without an error whose priority
\* is missing, falsy or a text: the conversion succeeded.
ConversionSucceeds ==
    /\ fmPc = "fetchSent" /\ fmPc' = "idle"
    /\ exPc = "done"
    /\ exResp.error = ""
    /\ LET returned == AsTodo(exResp.todo).priority
       IN  Truthy(returned) => IsString(returned)

\* C20: after a successful natural-language conversion the priority of the
\* form is one of high, medium and low: a returned priority that matches one
\* of them without regard to case is used in lower case, a missing or
\* unrecognized one becomes medium.
C20_PrefilledPriority ==
    [][ConversionSucceeds =>
         LET returned == AsTodo(exResp.todo).priority
             matches  == Truthy(returned) /\ ToLowerCase(returned.v) \in {High, Medium, Low}
         IN  /\ values'.priority \in {High, Medium, Low}
             /\ matches => values'.priority = ToLowerCase(returned.v)
             /\ ~matches => values'.priority = Medium]_vars

\* The conversion that returned the priority "Low" with the category p has
\* prefilled the form with low.
C20_Witness ==
    /\ fmPc = "idle"
    /\ values.category = Str(<<"p">>)
    /\ values.priority = Low

\* new Date(todo.due_date) of the todo a response holds.
ReturnedDueDate ==
    LET due == AsTodo(exResp.todo).due_date
    IN  IF Truthy(due) /\ IsString(due) THEN DateOfText(due.v) ELSE NaN

\* C21: after a successful natural-language conversion that returns a valid
\* due date the due time of the form is the returned due time when one is
\* present and 09:00 otherwise; when the returned due date is missing or no
\* valid date, the due date and the due time of the form stay as they were.
C21_PrefilledDueTime ==
    [][ConversionSucceeds =>
         LET todo == AsTodo(exResp.todo)
         IN  IF ~ReturnedDueDate.nan
             THEN /\ values'.due_date = DateAt(ReturnedDueDate.at)
                  /\ values'.due_time = IF Truthy(todo.due_time)
                                        THEN todo.due_time
                                        ELSE Str(<<"0", "9", ":", "0", "0">>)
             ELSE /\ values'.due_date = values.due_date
                  /\ values'.due_time = values.due_time]_vars

\* A conversion that returned a due date without a due time has set the
\* due time of the form to 09:00.
C21_Witness ==
    /\ fmPc = "idle"
    /\ values.due_date.t = "date"
    /\ values.due_time = Str(<<"0", "9", ":", "0", "0">>)

\* The day of an instant on the calendar of the browser, and its minute of
\* that day.
LocalDay(at, tz) == (at + tz) \div MinutesPerDay
LocalMinute(at, tz) == (at + tz) % MinutesPerDay

\* The clock time hh:mm a due time reads as, in minutes: 00:00 for no due time.
EnteredMinute(time) ==
    IF ~Truthy(time) THEN 0
    ELSE DigitsValue(SubSeq(time.v, 1, 2)) * 60 + DigitsValue(SubSeq(time.v, 4, 5))

\* The record of the call of the store that a step has started.
SubmittedRecord == ops'[Len(ops')].record

\* C22: on the submit of the form a todo with a due date is stored with the
\* calendar date of that due date and with the entered due time as its hour
\* and minute, or with 00:00 when no due time was entered; a todo submitted
\* without a due date is stored without one, even with a due time entered.
C22_SubmittedDueDate ==
    [][Len(ops') > Len(ops) /\ ops'[Len(ops')].kind \in {"add", "edit"} =>
         LET stored == StoredDate(SubmittedRecord.due_date)
         IN  IF values.due_date.t = "date"
             THEN /\ stored.t = "date"
                  /\ LocalDay(stored.at, fmTz) = LocalDay(values.due_date.at, fmTz)
                  /\ LocalMinute(stored.at, fmTz) = EnteredMinute(values.due_time)
             ELSE stored = NoDate]_vars

\* The Response of an extraction that runs alone, with the request, the
\* clock and the answer of the service this invocation has.
ExtractAlone ==
    LET v == ExtractValidate(exBody)
    IN  IF ~v.ok THEN v.resp
        ELSE ExtractFinish(exAnswer, v.prompt, ToISODate(exNow)).resp

\* The Response of an analysis that runs alone, with the request and the
\* answer of the service this invocation has.
AnalyzeAlone ==
    LET v == AnalyzeValidate(anBody)
    IN  IF ~v.send THEN v.resp ELSE AnalyzeFinish(anAnswer).resp

UnauthenticatedProtected ==
    /\ ssUser = "none"
    /\ ssPath = RootPath \/ StartsWith(ssPath, ProtectedPath)

\* A request with a user for "/login" or "/signup".
AuthenticatedAuthPage == ssUser # "none" /\ ssPath \in {LoginPath, SignupPath}

\* C24: a request without an authenticated user for a protected route ("/"
\* or a path that starts with "/protected") is always redirected to "/login"
\* and never passed through; a request with an authenticated user for
\* "/login" or "/signup" is always redirected to "/".
C24_SessionRedirects ==
    ssResp # NoSessionResponse =>
        /\ UnauthenticatedProtected => ssResp = Redirect(LoginPath)
        /\ AuthenticatedAuthPage => ssResp = Redirect(RootPath)

\* A signed-in browser that asked for "/signup" holds its redirect to "/".
C24_Witness ==
    /\ ssUser # "none"
    /\ ssPath = SignupPath
    /\ ssHops = 0
    /\ ssResp = Redirect(RootPath)

\* C30: the redirects of the session check never loop: for a session that
\* stays as it is and any path, following the redirects of updateSession
\* reaches a response that is passed through after at most one redirect.
C30_NoRedirectLoop ==
    /\ [](ssHops <= 1)
    /\ <>(ssResp = PassThrough)

\* The browser has followed one redirect and the request it made then was
\* passed through.
C30_Witness ==
    /\ ssHops = 1
    /\ ssResp = PassThrough

\* No toggle of completed waits for the store.
TogglesFinished == \A i \in 1..Len(ops) : ops[i].kind # "toggle"

\* C25: once every toggle of completed has finished, each one with success
\* or with an error of the store and in any order, the completed flag the
\* list shows for every todo is the one the store holds; the rollback of a
\* failed toggle does not undo the optimistic update of another todo.
C25_TogglesConverge ==
    TogglesFinished =>
        \A k \in 1..Len(todos) :
            RowOf(rows, todos[k].id) # NoRow =>
                todos[k].completed = RowOf(rows, todos[k].id).completed

\* C26: once the store has confirmed the deletion of a todo, the todo is
\* never again in the list the page shows, whatever deletes, toggles, adds
\* and edits were in flight at the same time: every todo of the list is a
\* row of the store.
C26_DeletedStaysGone ==
    \A k \in 1..Len(todos) : RowOf(rows, todos[k].id) # NoRow

\* The timeframe of the analysis that a step sets the result of: the one of
\* the request handleAnalyze waits for, or the active tab when it sets the
\* result without a request.
ResultTimeframe == IF uiPc = "fetchSent" THEN uiReq.timeframe ELSE activeTab

\* C27: the result the analysis view shows belongs to the active tab: a
\* result that is set while the tab today (or week) is active comes from an
\* analysis that was requested for that timeframe, also when the user
\* switches the tab while the request is in flight.
C27_ResultOfActiveTab ==
    [][result' # result /\ result' # NoResult => ResultTimeframe = activeTab']_vars

\* A step clears the form and the prompt of the create mode at once, as
\* form.reset() and setAiPrompt("") of handleSubmit do.
FormCleared ==
    /\ editTodo = NoRow
    /\ values # DefaultValues(NoRow, fmTz) /\ aiPrompt # <<>>
    /\ values' = DefaultValues(NoRow, fmTz) /\ aiPrompt' = <<>>

\* The step ends a call of handleAddTodo whose insert the store has made.
AddPersisted ==
    \E i \in 1..Len(ops) :
        /\ ops[i].kind = "add"
        /\ ops[i].stage = "select"
        /\ ops' = RemoveAt(ops, i)

\* C28: in create mode the form and the prompt are cleared only after the new
\* todo was persisted: when the insert fails, or when no user is signed in,
\* the values the user entered stay in the form.
C28_ClearedOnlyAfterPersist == [][FormCleared => AddPersisted]_vars

\* C29: the completion rate of the analysis view is an integer from 0 to 100,
\* is 0 when no todo is in the timeframe, and is 100, the condition of the
\* badge for a perfect day, only when every todo of the timeframe is
\* completed, for every number of todos and of completed todos among them.
C29_CompletionRate ==
    LET stats == Stats(todos, activeTab, uiToday)
    IN  /\ stats.rate \in 0..100
        /\ stats.total = 0 => stats.rate = 0
        /\ stats.rate = 100 => stats.completed = stats.total

====
